---- MODULE Spec2Model ----
(***************************************************************************)
(* <natural-grid>: initialization cycles, plugin pipeline, data providers  *)
(* (static / fetch / sse) and the GridModel, as a state machine.           *)
(*                                                                         *)
(* The element is single threaded: every action below is one run-to-       *)
(* suspension step of the JavaScript (a callback, or the continuation of   *)
(* an await).  The awaits of #initializeIfNeeded, loadExternalPlugins and  *)
(* fetchOnce are the scheduling points.                                    *)
(***************************************************************************)
EXTENDS Integers, Sequences, FiniteSets, TLC

\* ---------------------------------------------------------------- bounds
MaxCycles == 2      \* initialization cycles begun (connect + reinitialize)
MaxTicks == 1       \* poll timer ticks delivered
MaxMsgs == 2        \* EventSource events delivered (messages and errors)
MaxUpdate == 2      \* rows of one upsertRows call
MaxCalls == 3       \* requestRender() calls in a row
MaxSheets == 3      \* entries of #pluginStyleSheets when addStyles is called from outside a factory
TreeDepth == 3      \* levels of a row tree
TreeWidth == 3      \* rows under one parent
MaxSubs == 3        \* subscriptions an outside plugin holds on one event

\* ------------------------------------------------------------- constants
BuiltinPriority == -1000
ThemeStylePriority == 0
PluginBaseStylePriority == -1
DefaultPluginPriority == 0
DefaultPageSize == 10

\* A value that may be undefined (or null) is a sequence of at most one value.
None == <<>>
Some(x) == <<x>>

\* ---------------------------------------------------------------- values
Row(i, v) == [id |-> i, v |-> v]

Min(a, b) == IF a < b THEN a ELSE b
Max(a, b) == IF a > b THEN a ELSE b
CeilDiv(a, b) == (a + b - 1) \div b

\* JS `x || y` and `x ?? y` on a value that is an array or undefined (arrays
\* are truthy, the empty one included).
OrElse(x, y) == IF x = None THEN y ELSE x[1]

EmptyModel ==
  [columns |-> <<>>, rows |-> <<>>, sort |-> <<>>, filters |-> <<>>,
   status |-> "init", error |-> ""]

\* Collation ranks stand for plugin ids: localeCompare orders ids as their
\* ranks are ordered.
BuiltinId == 2

BuiltinPlugin ==
  [id |-> BuiltinId, nature |-> "presentation", priority |-> BuiltinPriority,
   kind |-> "theme", options |-> [pageSize |-> None, pageSizes |-> <<>>, mode |-> "auto"],
   order |-> None]

Ref(i, n, p, k, o, u) ==
  [id |-> i, nature |-> n, priority |-> p, kind |-> k, options |-> o,
   moduleUrl |-> u]

\* (pageSizes: the numbers of options.pageSizes, <<>> when it is no array)
NoOptions == [pageSize |-> None, pageSizes |-> <<>>, mode |-> "auto"]

\* ------------------------------------------------- plugin list ordering
\* Number(a.order ?? 0)
OrderOf(p) == OrElse(p.order, 0)

\* a.id.localeCompare(b.id) on collation ranks
LocaleCompare(a, b) == IF a < b THEN -1 ELSE IF a > b THEN 1 ELSE 0

\* A comparator that leaves the declaration order out: what the ordering
\* property C8 has to tell apart from ComparePlugins.
CompareIgnoringOrder(a, b) ==
  LET delta == a.priority - b.priority
  IN IF delta # 0 THEN delta ELSE LocaleCompare(a.id, b.id)

\* the comparator handed to Array.prototype.sort in #initializeIfNeeded
ComparePlugins(a, b) ==
  LET delta == a.priority - b.priority
      orderDelta == OrderOf(a) - OrderOf(b)
  IN IF delta # 0 THEN delta
     ELSE IF orderDelta # 0 THEN orderDelta
     ELSE LocaleCompare(a.id, b.id)

\* Array.prototype.sort is stable: x goes after every element that does
\* not compare greater than it.
RECURSIVE InsertSorted(_, _)
InsertSorted(x, s) ==
  IF s = <<>> THEN <<x>>
  ELSE IF ComparePlugins(s[Len(s)], x) <= 0 THEN Append(s, x)
  ELSE Append(InsertSorted(x, SubSeq(s, 1, Len(s) - 1)), s[Len(s)])

RECURSIVE SortPlugins(_)
SortPlugins(s) ==
  IF s = <<>> THEN <<>>
  ELSE InsertSorted(s[Len(s)], SortPlugins(SubSeq(s, 1, Len(s) - 1)))


\* ------------------------------------------------------------ the state
VARIABLES
  pool,                  \* what the host page can put into the element (fixed per run)
  stream,                \* the events the server can send (fixed per run)
  dom,                   \* what the element holds right now: data-init and the sources
  isConnected,           \* HTMLElement.isConnected
  initDone,              \* #initDone
  reinitQueued,          \* #reinitQueued
  config,                \* #config
  model,                 \* #model
  cellRenderers,         \* #cellRenderers   (column key -> renderer)
  headerRenderers,       \* #headerRenderers (column key -> renderer)
  toolbarItems,          \* #toolbarItems
  footerItems,           \* #footerItems
  events,                \* #events          (event name -> handlers)
  pluginDisposers,       \* #pluginDisposers
  pluginStyleSheets,     \* #pluginStyleSheets
  dataProviderFactories, \* #dataProviderFactories (the kinds registered)
  plugins,               \* #plugins
  activeDataProvider,    \* #activeDataProvider (index into providers, 0 = null)
  view,                  \* the children of the shadow root: what #render has built
  virtualizationState,   \* #virtualizationState
  userCss,               \* #userCss
  treeExpandedIds,       \* #treeExpandedIds
  scrollQueued,          \* no scroll event has been fired at the last render's viewport
  pluginBaseStylesInjected, \* module variable of the typical plugin pack
  pag,                   \* closure state of every pagination plugin instance
  flt,                   \* closure state and input of every filter plugin instance
  srt,                   \* closure state of every sort plugin instance
  disposed,              \* closure state of every counting plugin instance
  providers,             \* every provider instance created so far
  cycles,                \* every #initializeIfNeeded activation, with its locals
  initLog,               \* per cycle: the plugins whose factory was invoked
  mq,                    \* the microtask queue: continuations ready to run
  ticks,                 \* poll timer ticks delivered
  msgs                   \* EventSource events delivered

gridVars ==
  <<config, model, cellRenderers, headerRenderers, toolbarItems, footerItems,
    events, pluginDisposers, pluginStyleSheets, dataProviderFactories, plugins,
    activeDataProvider, view, virtualizationState, userCss, scrollQueued,
    treeExpandedIds,
    pluginBaseStylesInjected,
    pag, flt, srt, disposed, providers>>

vars ==
  <<pool, stream, dom, isConnected, initDone, reinitQueued, gridVars, cycles,
    initLog, mq, ticks, msgs>>

EventNames == {"data", "grid:sorted", "grid:filtered", "grid:paginated"}

NoEvents == [n \in EventNames |-> <<>>]

\* The grid and provider state as one record, so that the statements of a
\* handler can be applied one after the other.
Cur ==
  [config |-> config, model |-> model, cellRenderers |-> cellRenderers,
   headerRenderers |-> headerRenderers, toolbarItems |-> toolbarItems,
   footerItems |-> footerItems, events |-> events,
   pluginDisposers |-> pluginDisposers,
   pluginStyleSheets |-> pluginStyleSheets,
   dataProviderFactories |-> dataProviderFactories, plugins |-> plugins,
   activeDataProvider |-> activeDataProvider, view |-> view,
   virtualizationState |-> virtualizationState, userCss |-> userCss,
   scrollQueued |-> scrollQueued, treeExpandedIds |-> treeExpandedIds,
   unstyled |-> dom.unstyled,       \* this.hasAttribute("data-unstyled")
   pluginBaseStylesInjected |-> pluginBaseStylesInjected, pag |-> pag,
   flt |-> flt, srt |-> srt, disposed |-> disposed, providers |-> providers]

Put(s) ==
  /\ config' = s.config
  /\ model' = s.model
  /\ cellRenderers' = s.cellRenderers
  /\ headerRenderers' = s.headerRenderers
  /\ toolbarItems' = s.toolbarItems
  /\ footerItems' = s.footerItems
  /\ events' = s.events
  /\ pluginDisposers' = s.pluginDisposers
  /\ pluginStyleSheets' = s.pluginStyleSheets
  /\ dataProviderFactories' = s.dataProviderFactories
  /\ plugins' = s.plugins
  /\ activeDataProvider' = s.activeDataProvider
  /\ view' = s.view
  /\ virtualizationState' = s.virtualizationState
  /\ userCss' = s.userCss
  /\ scrollQueued' = s.scrollQueued
  /\ treeExpandedIds' = s.treeExpandedIds
  /\ pluginBaseStylesInjected' = s.pluginBaseStylesInjected
  /\ pag' = s.pag
  /\ flt' = s.flt
  /\ srt' = s.srt
  /\ disposed' = s.disposed
  /\ providers' = s.providers

\* ------------------------------------------------------- style pipeline
ThemeStyleId == "theme:modern"
PluginBaseStyleId == "natural-grid-plugin-base-styles"

\* Collation ranks of the style ids in use, as localeCompare orders them.
StyleRank(id) ==
  CASE id = "a-style" -> 1
    [] id = PluginBaseStyleId -> 2
    [] id = ThemeStyleId -> 3
    [] OTHER -> 4

\* (a.priority - b.priority) || a.id.localeCompare(b.id)
CompareSheets(a, b) ==
  IF a.priority # b.priority THEN a.priority - b.priority
  ELSE LocaleCompare(StyleRank(a.id), StyleRank(b.id))

\* The fragments in the order of their registration: what the style
\* property C25 has to tell apart from the sorted list.
RegistrationOrder(sheets) == sheets

\* [...this.#pluginStyleSheets].sort(...), a stable sort
RECURSIVE OrderedPluginSheets(_)
OrderedPluginSheets(sheets) ==
  IF sheets = <<>> THEN <<>>
  ELSE LET Place(before, x, k) ==
             SubSeq(before, 1, k) \o <<x>> \o SubSeq(before, k + 1, Len(before))
           Insert(before, x) ==
             Place(before, x,
                   Cardinality({i \in DOMAIN before : CompareSheets(before[i], x) <= 0}))
       IN Insert(OrderedPluginSheets(SubSeq(sheets, 1, Len(sheets) - 1)),
                 sheets[Len(sheets)])

Sheet(kind, id, priority) == [kind |-> kind, id |-> id, priority |-> priority]

\* #themeCssText() returns "": the theme slot holds no sheet
ThemeSlot == <<>>

\* #ensureBaseSheet and #applyStylePipeline: the list the shadow root adopts
\* (the <style> elements of the fallback come in the same order)
ApplyStylePipeline(s) ==
  IF s.unstyled THEN <<>>
  ELSE LET ordered == OrderedPluginSheets(s.pluginStyleSheets)
           fragments == SelectSeq(ordered, LAMBDA p : p.sheet)
       IN <<Sheet("base", "", 0)>> \o ThemeSlot
          \o [i \in 1..Len(fragments) |->
                Sheet("plugin", fragments[i].id, fragments[i].priority)]
          \o (IF s.userCss # "" THEN <<Sheet("user", s.userCss, 0)>> ELSE <<>>)

\* --------------------------------------------------------------- render
DefaultRowThreshold == 200
DefaultColumnThreshold == 16

\* ui.virtualization of a spec that sets nothing
NoVirtualization ==
  [enabled |-> None, rowThreshold |-> None, columnThreshold |-> None,
   rowHeightPx |-> None, viewportHeightPx |-> None, bufferRows |-> None,
   columnWidthPx |-> None, columnBuffer |-> None, viewportWidthPx |-> None]

\* The column descriptors of the specs in use: widthPx by column key.
WidthPx(c) ==
  CASE c = "wide" -> Some(200)
    [] c = "zero" -> Some(0)
    [] OTHER -> None

\* Math.max(1, Number(virtualizationUi.rowHeightPx ?? 34)) and the like
RowHeight(v) == Max(1, OrElse(v.rowHeightPx, 34))
ViewportHeightPx(v) == Max(160, OrElse(v.viewportHeightPx, 360))
BufferRows(v) == Max(0, OrElse(v.bufferRows, 5))
ColumnWidthHint(v) == Max(48, OrElse(v.columnWidthPx, 160))
ColumnBuffer(v) == Max(0, OrElse(v.columnBuffer, 2))
ViewportWidthPx(v) == Max(200, OrElse(v.viewportWidthPx, 760))

\* A decision that turns virtualization on at the threshold already: what
\* the activation property C22 has to tell apart from virtualizationEnabled.
VirtualizationFromThreshold(v, flatCount, colCount) ==
  IF v.enabled # None THEN v.enabled[1]
  ELSE \/ flatCount >= OrElse(v.rowThreshold, DefaultRowThreshold)
       \/ colCount >= OrElse(v.columnThreshold, DefaultColumnThreshold)

\* virtualizationEnabled
VirtualizationEnabled(v, flatCount, colCount) ==
  IF v.enabled # None THEN v.enabled[1]
  ELSE \/ flatCount > OrElse(v.rowThreshold, DefaultRowThreshold)
       \/ colCount > OrElse(v.columnThreshold, DefaultColumnThreshold)

\* A row window whose leading spacer comes from the stored rowStart as it
\* is: what the spacer property C30 has to tell apart from the clamped
\* rowStart.
RowWindowFromRaw(v, enabled, totalFlatRows, rowStartRaw) ==
  LET rowHeight == RowHeight(v)
      Window(rowStart, visibleRowCount, rowEnd) ==
        [rowStart |-> rowStart, visibleRowCount |-> visibleRowCount, rowEnd |-> rowEnd,
         topSpacerHeight |-> IF enabled THEN rowStartRaw * rowHeight ELSE 0,
         bottomSpacerHeight |->
           IF enabled THEN Max(0, (totalFlatRows - rowEnd) * rowHeight) ELSE 0]
      Ends(rowStart, visibleRowCount) ==
        Window(rowStart, visibleRowCount,
               IF enabled THEN Min(totalFlatRows, rowStart + visibleRowCount)
               ELSE totalFlatRows)
  IN Ends(IF enabled THEN Min(Max(0, rowStartRaw), Max(0, totalFlatRows - 1)) ELSE 0,
          IF enabled
          THEN Max(1, Min(totalFlatRows,
                          CeilDiv(ViewportHeightPx(v), rowHeight) + BufferRows(v) * 2))
          ELSE totalFlatRows)

\* rowStart .. bottomSpacerHeight of #render
RowWindow(v, enabled, totalFlatRows, rowStartRaw) ==
  LET rowHeight == RowHeight(v)
      Window(rowStart, visibleRowCount, rowEnd) ==
        [rowStart |-> rowStart, visibleRowCount |-> visibleRowCount, rowEnd |-> rowEnd,
         topSpacerHeight |-> IF enabled THEN rowStart * rowHeight ELSE 0,
         bottomSpacerHeight |->
           IF enabled THEN Max(0, (totalFlatRows - rowEnd) * rowHeight) ELSE 0]
      Ends(rowStart, visibleRowCount) ==
        Window(rowStart, visibleRowCount,
               IF enabled THEN Min(totalFlatRows, rowStart + visibleRowCount)
               ELSE totalFlatRows)
  IN Ends(IF enabled THEN Min(Max(0, rowStartRaw), Max(0, totalFlatRows - 1)) ELSE 0,
          IF enabled
          THEN Max(1, Min(totalFlatRows,
                          CeilDiv(ViewportHeightPx(v), rowHeight) + BufferRows(v) * 2))
          ELSE totalFlatRows)

\* cols.map((c) => Math.max(1, Number(c.widthPx ?? columnWidthHint)))
ColumnWidths(cols, v) ==
  [i \in 1..Len(cols) |-> Max(1, OrElse(WidthPx(cols[i]), ColumnWidthHint(v)))]

\* columnOffsets[k], k = 0 .. cols.length: the widths of the first k columns
RECURSIVE ColumnOffset(_, _)
ColumnOffset(columnWidths, k) ==
  IF k = 0 THEN 0 ELSE ColumnOffset(columnWidths, k - 1) + columnWidths[k]

\* the while loop that advances colEnd (0-based, exclusive)
RECURSIVE AdvanceColEnd(_, _, _, _)
AdvanceColEnd(columnWidths, colEnd, widthAccumulator, targetWidth) ==
  IF colEnd < Len(columnWidths) /\ widthAccumulator < targetWidth
  THEN AdvanceColEnd(columnWidths, colEnd + 1,
                     widthAccumulator + columnWidths[colEnd + 1], targetWidth)
  ELSE colEnd

\* colStart .. rightPadding of #render
ColumnWindow(v, enabled, cols, colStartRaw) ==
  LET columnWidths == ColumnWidths(cols, v)
      totalColumnWidth == ColumnOffset(columnWidths, Len(cols))
      Window(colStart, colEnd) ==
        [colStart |-> colStart, colEnd |-> colEnd,
         visibleColumns |-> SubSeq(cols, colStart + 1, colEnd),
         visibleColumnsWidth |->
           ColumnOffset(columnWidths, colEnd) - ColumnOffset(columnWidths, colStart),
         leftPadding |-> IF enabled THEN ColumnOffset(columnWidths, colStart) ELSE 0,
         rightPadding |->
           IF enabled
           THEN Max(0, totalColumnWidth - ColumnOffset(columnWidths, colEnd))
           ELSE 0]
      Loop(colStart, colEnd) ==
        Window(colStart,
               IF colEnd = colStart /\ Len(cols) > 0
               THEN Min(Len(cols), colStart + 1) ELSE colEnd)
      From(colStart) ==
        Loop(colStart,
             IF enabled
             THEN AdvanceColEnd(columnWidths, colStart, 0,
                                ViewportWidthPx(v) + ColumnBuffer(v) * ColumnWidthHint(v))
             ELSE Len(cols))
  IN From(IF enabled THEN Min(Max(0, colStartRaw), Max(0, Len(cols) - 1)) ELSE 0)

\* what handleScroll keeps of the render that installed it
ScrollClosure(v, cols, totalFlatRows, rw, cw) ==
  [rowHeight |-> RowHeight(v),
   clampRowStart |-> Max(0, totalFlatRows - rw.visibleRowCount),
   clampColumnStart |-> Max(0, Len(cols) - Max(1, Len(cw.visibleColumns))),
   columnWidths |-> ColumnWidths(cols, v)]

Spacer(height) == [spacer |-> TRUE, height |-> height, id |-> 0, depth |-> 0]

\* appendSpacerRow
AppendSpacerRow(tbody, enabled, height) ==
  IF ~enabled \/ height <= 0 THEN tbody ELSE Append(tbody, Spacer(height))

\* the children of <tbody>: spacer rows and one <tr> per visible row
Tbody(flatEntries, enabled, rw) ==
  AppendSpacerRow(
    AppendSpacerRow(<<>>, enabled, rw.topSpacerHeight)
      \o [i \in 1..(rw.rowEnd - rw.rowStart) |->
            [spacer |-> FALSE, height |-> 0, id |-> flatEntries[rw.rowStart + i].row.id,
             depth |-> flatEntries[rw.rowStart + i].depth]],
    enabled, rw.bottomSpacerHeight)

\* Appending to what the shadow root holds: what the render property C24 has
\* to tell apart from a render that empties the root first.
AppendChild(root, wrap) == Append(root, wrap)

\* root.innerHTML = ""; ...; root.appendChild(wrap)
ReplaceChildren(root, wrap) == <<wrap>>

\* A render that lays the table out after the banner: what the error
\* property C23 has to tell apart from the early return.
ErrorContentWithTable(s, table, footer) ==
  [error |-> Some(IF s.model.error = "" THEN "Error" ELSE s.model.error),
   table |-> Some(table), footer |-> footer]

\* the error branch of #render: the banner, then return
ErrorContent(s, table, footer) ==
  [error |-> Some(IF s.model.error = "" THEN "Error" ELSE s.model.error),
   table |-> None, footer |-> <<>>]

\* What the shadow root holds after a render is a function of what #render
\* read at that moment; a child of the root is kept as that reading, and
\* Wrap gives the tree built from it.
Reading(s) ==
  [model |-> s.model, columns |-> s.config.columns, ui |-> s.config.ui,
   toolbarItems |-> s.toolbarItems, footerItems |-> s.footerItems,
   pluginStyleSheets |-> s.pluginStyleSheets, userCss |-> s.userCss,
   unstyled |-> s.unstyled, virtualizationState |-> s.virtualizationState,
   treeExpandedIds |-> s.treeExpandedIds]

\* A flatten that takes every row as expanded: what the hierarchy property
\* C32 has to tell apart from the lookup in the expansion set.
RECURSIVE FlattenAllRows(_, _, _)
FlattenAllRows(rows, depth, expanded) ==
  IF rows = <<>> THEN <<>>
  ELSE <<[row |-> Head(rows), depth |-> depth]>>
       \o (IF "children" \in DOMAIN Head(rows)
           THEN FlattenAllRows(Head(rows).children, depth + 1, expanded) ELSE <<>>)
       \o FlattenAllRows(Tail(rows), depth, expanded)

\* flattenTreeRows(rows, depth, [], expanded), expanded a Set
RECURSIVE FlattenTreeRows(_, _, _)
FlattenTreeRows(rows, depth, expanded) ==
  IF rows = <<>> THEN <<>>
  ELSE LET r == Head(rows)
           hasKids == "children" \in DOMAIN r /\ Len(r.children) > 0
           isExpanded == ToString(r.id) \in expanded
       IN <<[row |-> r, depth |-> depth]>>
          \o (IF hasKids /\ isExpanded
              THEN FlattenTreeRows(r.children, depth + 1, expanded) ELSE <<>>)
          \o FlattenTreeRows(Tail(rows), depth, expanded)

\* flatEntries of #render
FlatEntries(r) ==
  IF r.ui.tree THEN FlattenTreeRows(r.model.rows, 0, r.treeExpandedIds)
  ELSE [i \in 1..Len(r.model.rows) |-> [row |-> r.model.rows[i], depth |-> 0]]

\* const cols = this.#model.columns.length ? ... : cfgCols
Cols(r) == IF Len(r.model.columns) > 0 THEN r.model.columns ELSE OrElse(r.columns, <<>>)

\* virtualizationEnabled of the render that reads r
Virtualized(r) ==
  VirtualizationEnabled(r.ui.virtualization, Len(FlatEntries(r)), Len(Cols(r)))

\* the <table> of #render
Table(r) ==
  LET Laid(v, flatEntries, enabled, rw, cw) ==
        [virtualized |-> enabled, thead |-> cw.visibleColumns,
         tbody |-> Tbody(flatEntries, enabled, rw),
         paddingLeft |-> cw.leftPadding, paddingRight |-> cw.rightPadding,
         scroll |-> IF enabled
                    THEN Some(ScrollClosure(v, Cols(r), Len(flatEntries), rw, cw))
                    ELSE None]
      Windows(v, flatEntries, enabled) ==
        Laid(v, flatEntries, enabled,
             RowWindow(v, enabled, Len(flatEntries), r.virtualizationState.rowStart),
             ColumnWindow(v, enabled, Cols(r), r.virtualizationState.colStart))
      Flat(flatEntries) ==
        Windows(r.ui.virtualization, flatEntries,
                VirtualizationEnabled(r.ui.virtualization, Len(flatEntries), Len(Cols(r))))
  IN Flat(FlatEntries(r))

\* what handleScroll of the virtualized render reading r has closed over
Listener(r) ==
  LET Closed(v, total) ==
        ScrollClosure(v, Cols(r), total,
                      RowWindow(v, TRUE, total, r.virtualizationState.rowStart),
                      ColumnWindow(v, TRUE, Cols(r), r.virtualizationState.colStart))
  IN Closed(r.ui.virtualization, Len(FlatEntries(r)))

\* the wrap element of #render.  (Rows are flat and the toolbar is enabled in
\* every spec in use; the title and the cells take no part in what is checked.)
Wrap(r) ==
  LET Filled(content) ==
        [styles |-> ApplyStylePipeline(r), toolbar |-> r.toolbarItems,
         error |-> content.error, table |-> content.table, footer |-> content.footer]
  IN Filled(IF r.model.status = "error" THEN ErrorContent(r, Table(r), r.footerItems)
            ELSE [error |-> None, table |-> Some(Table(r)), footer |-> r.footerItems])

\* The largest scroll position of the viewport that the render reading r
\* builds: the absolutely positioned track spans the scrollable area, the
\* viewport is viewportHeightPx high and taken to be viewportWidthPx wide.
ScrollRange(r) ==
  LET Range(v, trackWidth, trackHeight) ==
        [top |-> Max(0, trackHeight - ViewportHeightPx(v)),
         left |-> Max(0, trackWidth - ViewportWidthPx(v))]
      Track(v, widths) ==
        Range(v, Max(1, Max(ColumnOffset(widths, Len(widths)), ViewportWidthPx(v))),
              Max(1, Max(Len(FlatEntries(r)) * RowHeight(v), ViewportHeightPx(v))))
  IN Track(r.ui.virtualization, ColumnWidths(Cols(r), r.ui.virtualization))

\* viewport.scrollTop = rowStart * rowHeight; viewport.scrollLeft =
\* columnOffsets[safeColIndex] ?? 0: the position the new viewport takes.
\* (The browser keeps a scroll position inside the scrollable range.)
AssignedScroll(r) ==
  LET Kept(widths, range) ==
        [top |-> Min(r.virtualizationState.rowStart * RowHeight(r.ui.virtualization),
                     range.top),
         left |-> Min(ColumnOffset(widths, Min(r.virtualizationState.colStart, Len(widths))),
                      range.left)]
  IN Kept(ColumnWidths(Cols(r), r.ui.virtualization), ScrollRange(r))

\* The assignment moves the new viewport away from the position 0/0 it is
\* created with: the browser queues a scroll event for it, which it fires
\* once the script that rendered has returned.
ScrollMoved(r) ==
  /\ r.model.status # "error"
  /\ Virtualized(r)
  /\ AssignedScroll(r) # [top |-> 0, left |-> 0]

\* #render
Render(s) ==
  [s EXCEPT !.view = ReplaceChildren(@, Reading(s)),
            !.scrollQueued = TRUE,
            !.virtualizationState =
               IF s.model.status # "error" /\ ~Virtualized(Reading(s))
               THEN [rowStart |-> 0, colStart |-> 0] ELSE @]

\* nextRowStart and nextColStart of handleScroll, the listener that the
\* virtualized render reading r has installed
NextStart(r, scrollTop, scrollLeft) ==
  LET Resolve(h, n, hit) ==
        [rowStart |-> Min(h.clampRowStart, Max(0, scrollTop \div h.rowHeight)),
         colStart |->
           IF n = 0 THEN 0
           ELSE IF hit = {} THEN h.clampColumnStart
           ELSE Min(h.clampColumnStart, CHOOSE i \in hit : \A j \in hit : i <= j)]
      Offsets(h) ==
        Resolve(h, Len(h.columnWidths),
                {i \in 0..(Len(h.columnWidths) - 1) :
                   scrollLeft < ColumnOffset(h.columnWidths, i + 1)})
  IN Offsets(Listener(r))

\* handleScroll
HandleScroll(s, scrollTop, scrollLeft) ==
  LET Moved(next) ==
        IF next = s.virtualizationState THEN s
        ELSE Render([s EXCEPT !.virtualizationState = next])
  IN Moved(NextStart(s.view[1], scrollTop, scrollLeft))

\* ------------------------------------------------------- capability API
\* a setStatus that also clears the error message
ApiSetStatusClearingError(s, status) ==
  [s EXCEPT !.model.status = status, !.model.error = ""]

ApiSetStatus(s, status) == [s EXCEPT !.model.status = status]

ApiSetError(s, message) == [s EXCEPT !.model.error = message]

\* A setSnapshot that falls back to the columns of the spec only: what the
\* snapshot property C27 has to tell apart from the fallback to the model's
\* columns.
ApiSetSnapshotFromSpec(s, snapshot) ==
  [s EXCEPT !.model.columns = OrElse(snapshot.columns, OrElse(s.config.columns, <<>>)),
            !.model.rows = OrElse(snapshot.rows, <<>>),
            !.model.sort = OrElse(snapshot.sort, <<>>),
            !.model.filters = OrElse(snapshot.filters, <<>>)]

\* snapshot.columns || (model.columns.length ? model.columns : cfgCols)
ApiSetSnapshot(s, snapshot) ==
  LET cfgCols == OrElse(s.config.columns, <<>>)
      cols == OrElse(snapshot.columns,
                     IF Len(s.model.columns) > 0 THEN s.model.columns ELSE cfgCols)
  IN [s EXCEPT !.model.columns = cols,
               !.model.rows = OrElse(snapshot.rows, <<>>),
               !.model.sort = OrElse(snapshot.sort, <<>>),
               !.model.filters = OrElse(snapshot.filters, <<>>)]

ApiSetRows(s, rows) == [s EXCEPT !.model.rows = OrElse(rows, <<>>)]

ApiSetCellRenderer(s, key, fn) ==
  Render([s EXCEPT !.cellRenderers =
            {r \in s.cellRenderers : r.key # key} \cup {[key |-> key, fn |-> fn]}])

ApiSetHeaderRenderer(s, key, fn) ==
  Render([s EXCEPT !.headerRenderers =
            {r \in s.headerRenderers : r.key # key} \cup {[key |-> key, fn |-> fn]}])

ApiAddToolbarItem(s, item) ==
  Render([s EXCEPT !.toolbarItems = Append(s.toolbarItems, item)])

ApiAddFooterItem(s, item) ==
  Render([s EXCEPT !.footerItems = Append(s.footerItems, item)])

ApiOn(s, eventName, handler) ==
  [s EXCEPT !.events[eventName] = Append(s.events[eventName], handler)]

\* the function returned by on(): filter((h) => h !== handler)
Unsubscribe(s, eventName, handler) ==
  [s EXCEPT !.events[eventName] =
     SelectSeq(s.events[eventName], LAMBDA h : h # handler)]

\* (the cssText given is never empty here: the entry has a sheet when the
\* host injects styles at the time of the call)
ApiAddStyles(s, id, priority, owner) ==
  Render([s EXCEPT !.pluginStyleSheets =
            Append(s.pluginStyleSheets,
                   [id |-> id, priority |-> priority, owner |-> owner,
                    sheet |-> ~s.unstyled])])

\* the disposer returned by addStyles(): filter((x) => x.id !== id)
RemoveStyles(s, id) ==
  Render([s EXCEPT !.pluginStyleSheets =
            SelectSeq(s.pluginStyleSheets, LAMBDA x : x.id # id)])

\* A registration that also lets go of the active provider: what the
\* provider property C20 has to tell apart from registerDataProvider.
ApiRegisterDroppingActive(s, kind) ==
  [s EXCEPT !.dataProviderFactories = s.dataProviderFactories \cup {kind},
            !.activeDataProvider = 0]

\* api.registerDataProvider (the factory given is always a function here)
ApiRegisterDataProvider(s, kind) ==
  IF kind = "" THEN s
  ELSE [s EXCEPT !.dataProviderFactories = s.dataProviderFactories \cup {kind}]


\* --------------------------------------------------------------- events
Detail(payloadRows, rows, sourceRows) ==
  [payloadRows |-> payloadRows, rows |-> rows, sourceRows |-> sourceRows]

RECURSIVE Emit(_, _, _)

\* api.emit(name, detail); api.requestRender(): how every handler of the
\* plugin pack ends
EmitAndRender(s, name, detail) == Render(Emit(s, name, detail))

\* ---------------------------------- typical plugin pack: pagination plugin
InjectPluginBaseStyles(s, owner) ==
  IF s.pluginBaseStylesInjected THEN s
  ELSE ApiAddStyles([s EXCEPT !.pluginBaseStylesInjected = TRUE],
                    PluginBaseStyleId, PluginBaseStylePriority, owner)

ClampPage(pg) ==
  IF pg.totalRowsCount = 0 \/ pg.currentPageSize = 0
  THEN [pg EXCEPT !.currentPage = 0]
  ELSE LET totalPages == Max(1, CeilDiv(pg.totalRowsCount, pg.currentPageSize))
       IN IF pg.currentPage >= totalPages
          THEN [pg EXCEPT !.currentPage = totalPages - 1]
          ELSE pg

SetSourceRows(pg, list) ==
  ClampPage([pg EXCEPT !.sourceRows = list, !.totalRowsCount = Len(list)])

\* Array.prototype.slice(start, end), 0-based and end exclusive
Slice(list, start, end) == SubSeq(list, start + 1, Min(end, Len(list)))

\* A pagination step that never replaces the rows, whatever the mode: what
\* the row count property C5 has to tell apart from ApplyPagination.
ApplyPaginationKeepingRows(s, o) ==
  EmitAndRender(s, "grid:paginated", Detail(None, Some(s.pag[o].sourceRows), None))

\* An applyPagination that always shows the first page: what the page
\* property C40 has to tell apart from the slice at the current page.
ApplyPaginationFromStart(s, o) ==
  LET pg == s.pag[o]
      pageRows == Slice(pg.sourceRows, 0, pg.currentPageSize)
  IN IF pg.manualMode
     THEN EmitAndRender(s, "grid:paginated", Detail(None, Some(pg.sourceRows), None))
     ELSE EmitAndRender(ApiSetRows(s, Some(pageRows)), "grid:paginated",
                        Detail(None, Some(pageRows), None))

ApplyPagination(s, o) ==
  LET pg == s.pag[o]
      start == pg.currentPage * pg.currentPageSize
      pageRows == Slice(pg.sourceRows, start, start + pg.currentPageSize)
  IN IF pg.manualMode
     THEN EmitAndRender(s, "grid:paginated", Detail(None, Some(pg.sourceRows), None))
     ELSE EmitAndRender(ApiSetRows(s, Some(pageRows)), "grid:paginated",
                        Detail(None, Some(pageRows), None))

OnDataSnapshot(s, o, detail) ==
  LET next == OrElse(detail.payloadRows, s.model.rows)
      pg == [SetSourceRows(s.pag[o], next) EXCEPT !.currentPage = 0]
  IN ApplyPagination([s EXCEPT !.pag[o] = pg], o)

ResolveDetailRows(detail) ==
  IF detail.rows # None /\ Len(detail.rows[1]) > 0 THEN detail.rows[1]
  ELSE IF detail.sourceRows # None /\ Len(detail.sourceRows[1]) > 0
       THEN detail.sourceRows[1]
  ELSE <<>>

OnSorted(s, o, detail) ==
  LET pg == [SetSourceRows(s.pag[o], ResolveDetailRows(detail))
               EXCEPT !.currentPage = 0]
  IN ApplyPagination([s EXCEPT !.pag[o] = pg], o)

OnFiltered(s, o, detail) ==
  LET pg == [SetSourceRows(s.pag[o], OrElse(detail.rows, <<>>))
               EXCEPT !.currentPage = 0]
  IN ApplyPagination([s EXCEPT !.pag[o] = pg], o)

\* the click listener of the Prev button
OnPrevClick(s, o) ==
  IF s.pag[o].currentPage > 0
  THEN ApplyPagination([s EXCEPT !.pag[o].currentPage = @ - 1], o)
  ELSE s

\* the click listener of the Next button
OnNextClick(s, o) ==
  LET pg == s.pag[o]
      totalPages == Max(1, CeilDiv(pg.totalRowsCount, pg.currentPageSize))
  IN IF pg.currentPage < totalPages - 1
     THEN ApplyPagination([s EXCEPT !.pag[o].currentPage = @ + 1], o)
     ELSE s

\* the change listener of the page size select; nextSize = Number(select.value)
OnPageSizeChange(s, o, nextSize) ==
  IF nextSize <= 0 THEN s
  ELSE ApplyPagination(
         [s EXCEPT !.pag[o] = ClampPage([@ EXCEPT !.currentPageSize = nextSize,
                                                  !.currentPage = 0])], o)

Handler(o, fn) == [cyc |-> o.cyc, id |-> o.id, fn |-> fn]

OwnerOf(h) == [cyc |-> h.cyc, id |-> h.id]

CreatePaginationPlugin(s, o, options) ==
  LET initialPageSize == Max(1, OrElse(options.pageSize, DefaultPageSize))
      sizes == SelectSeq(options.pageSizes, LAMBDA n : n > 0)
      pg0 == [sourceRows |-> <<>>, totalRowsCount |-> 0, currentPage |-> 0,
              currentPageSize |-> initialPageSize,
              pageSizes |-> {sizes[i] : i \in DOMAIN sizes} \cup {initialPageSize},
              manualMode |-> (options.mode = "manual")]
      Installed(s1) ==
        ApiOn(ApiOn(ApiOn(ApiAddFooterItem(ApiAddToolbarItem(
                            [s1 EXCEPT !.pag = (o :> pg0) @@ @], o), o),
                          "grid:sorted", Handler(o, "onSorted")),
                    "data", Handler(o, "onDataSnapshot")),
              "grid:filtered", Handler(o, "onFiltered"))
      FirstCall(s4) == OnDataSnapshot(s4, o, Detail(Some(s4.model.rows), None, None))
      SecondCall(s5) == OnSorted(s5, o, Detail(None, Some(s5.model.rows), None))
  IN SecondCall(FirstCall(Installed(InjectPluginBaseStyles(s, o))))

\* ------------------------------------- typical plugin pack: filter plugin
\* Text is a sequence of characters.  String(value) of a cell value 0..9:
Digits == <<"0", "1", "2", "3", "4", "5", "6", "7", "8", "9">>
String(value) == <<Digits[value + 1]>>

\* String.prototype.trim (toLowerCase leaves digits and spaces as they are)
Trim(text) ==
  LET solid == {i \in DOMAIN text : text[i] # " "}
  IN IF solid = {} THEN <<>>
     ELSE SubSeq(text, CHOOSE i \in solid : \A j \in solid : i <= j,
                 CHOOSE i \in solid : \A j \in solid : i >= j)

\* String.prototype.includes
Includes(text, needle) ==
  \E i \in 1..(Len(text) - Len(needle) + 1) :
    SubSeq(text, i, i + Len(needle) - 1) = needle

\* row.cells holds one cell, the one of column "a"
Cell(row, key) == IF key = "a" THEN Some(row.v) ELSE None

NormalizeRow(row) == String(row.v)

ApplyFilters(s, o, term) ==
  LET needle == Trim(term)
      baseRows == s.flt[o].baseRows
      filtered == IF needle # <<>>
                  THEN SelectSeq(baseRows, LAMBDA row : Includes(NormalizeRow(row), needle))
                  ELSE baseRows
  IN EmitAndRender(ApiSetRows(s, Some(filtered)), "grid:filtered",
                   Detail(None, Some(filtered), None))

\* refreshBase; applyFilters() takes input.value as its term
RefreshBase(s, o) ==
  ApplyFilters([s EXCEPT !.flt[o].baseRows = s.model.rows], o, s.flt[o].value)

CreateFilterPlugin(s, o) ==
  LET Installed(s1) ==
        ApiAddToolbarItem([s1 EXCEPT !.flt = (o :> [baseRows |-> <<>>, value |-> <<>>]) @@ @],
                          o)
  IN RefreshBase(ApiOn(Installed(InjectPluginBaseStyles(s, o)),
                       "data", Handler(o, "refreshBase")), o)

\* --------------------------------------- typical plugin pack: sort plugin
CompareValues(a, b) ==
  IF a = b THEN 0
  ELSE IF a = None THEN -1
  ELSE IF b = None THEN 1
  ELSE a[1] - b[1]

\* the comparator that sortRows hands to Array.prototype.sort
RECURSIVE CompareRows(_, _, _)
CompareRows(a, b, sortState) ==
  IF sortState = <<>> THEN 0
  ELSE LET entry == Head(sortState)
           delta == CompareValues(Cell(a, entry.key), Cell(b, entry.key))
       IN IF delta # 0
          THEN (IF entry.direction = "asc" THEN delta ELSE -delta)
          ELSE CompareRows(a, b, Tail(sortState))

\* [...rows].sort(...), a stable sort
RECURSIVE SortRows(_, _)
SortRows(rows, sortState) ==
  IF rows = <<>> THEN <<>>
  ELSE LET Place(before, x, k) ==
             SubSeq(before, 1, k) \o <<x>> \o SubSeq(before, k + 1, Len(before))
           Insert(before, x) ==
             Place(before, x,
                   Cardinality({i \in DOMAIN before :
                                  CompareRows(before[i], x, sortState) <= 0}))
       IN Insert(SortRows(SubSeq(rows, 1, Len(rows) - 1), sortState), rows[Len(rows)])

ApplySort(s, o) ==
  LET base == s.srt[o].filteredRows
      Show(rowsToRender) ==
        EmitAndRender(ApiSetRows(s, Some(rowsToRender)), "grid:sorted",
                      Detail(None, Some(rowsToRender), Some(base)))
  IN Show(IF Len(s.srt[o].sortState) > 0 THEN SortRows(base, s.srt[o].sortState)
          ELSE base)

ToggleSort(s, o, columnKey, multi) ==
  LET sortState == s.srt[o].sortState
      kept == SelectSeq(sortState, LAMBDA entry : entry.key # columnKey)
      current == SelectSeq(sortState, LAMBDA entry : entry.key = columnKey)
      nextDirection == IF current = <<>> THEN "asc"
                       ELSE IF current[1].direction = "asc" THEN "desc"
                       ELSE ""
      next == IF multi THEN kept ELSE <<>>
  IN ApplySort([s EXCEPT !.srt[o].sortState =
                  IF nextDirection # ""
                  THEN <<[key |-> columnKey, direction |-> nextDirection]>> \o next
                  ELSE next], o)

SortOnFiltered(s, o, detail) ==
  ApplySort([s EXCEPT !.srt[o].filteredRows = OrElse(detail.rows, <<>>)], o)

SortOnDataSnapshot(s, o, detail) ==
  ApplySort([s EXCEPT !.srt[o].filteredRows = OrElse(detail.payloadRows, s.model.rows)], o)

RECURSIVE SetHeaderRenderers(_, _, _)
SetHeaderRenderers(s, o, columns) ==
  IF columns = <<>> THEN s
  ELSE SetHeaderRenderers(ApiSetHeaderRenderer(s, Head(columns), o), o, Tail(columns))

CreateSortPlugin(s, o) ==
  LET Installed(s1) ==
        ApiOn(ApiOn(SetHeaderRenderers(
                      [s1 EXCEPT !.srt = (o :> [sortState |-> <<>>, filteredRows |-> <<>>])
                                           @@ @],
                      o, OrElse(s1.config.columns, <<>>)),
                    "grid:filtered", Handler(o, "sortOnFiltered")),
              "data", Handler(o, "sortOnDataSnapshot"))
      FirstCall(s4) == SortOnDataSnapshot(s4, o, Detail(Some(s4.model.rows), None, None))
  IN FirstCall(Installed(InjectPluginBaseStyles(s, o)))

\* ------------------------------------------------------------ #emit
\* fn(detail).  The handler "custom" of an external plugin only observes the
\* event; the handler "throws" raises an exception before it changes anything.
CallHandler(s, h, detail) ==
  CASE h.fn = "onDataSnapshot" -> OnDataSnapshot(s, OwnerOf(h), detail)
    [] h.fn = "onSorted" -> OnSorted(s, OwnerOf(h), detail)
    [] h.fn = "onFiltered" -> OnFiltered(s, OwnerOf(h), detail)
    [] h.fn = "refreshBase" -> RefreshBase(s, OwnerOf(h))
    [] h.fn = "sortOnFiltered" -> SortOnFiltered(s, OwnerOf(h), detail)
    [] h.fn = "sortOnDataSnapshot" -> SortOnDataSnapshot(s, OwnerOf(h), detail)
    [] OTHER -> s

HandlerThrows(h) == h.fn = "throws"

\* Leaving #emit at the first handler that throws: what the event property
\* C12 has to tell apart from the catch inside the loop.
EmitNextUnlessThrown(list, i, threw) == IF threw THEN Len(list) + 1 ELSE i + 1

\* for (const fn of list) { try { fn(detail) } catch (_) {} }: the index the
\* loop goes on with after the handler at index i
EmitNext(list, i, threw) == i + 1

RECURSIVE RunHandlers(_, _, _, _)
RunHandlers(s, list, i, detail) ==
  IF i > Len(list) THEN s
  ELSE RunHandlers(CallHandler(s, list[i], detail), list,
                   EmitNext(list, i, HandlerThrows(list[i])), detail)

\* the handlers that the loop of #emit calls from index i on, in call order
RECURSIVE Invoked(_, _)
Invoked(list, i) ==
  IF i > Len(list) THEN <<>>
  ELSE <<list[i]>> \o Invoked(list, EmitNext(list, i, HandlerThrows(list[i])))

\* list is the array held when the emit starts: a handler unsubscribed during
\* the emit is still called (the unsubscribe function stores a new array).
Emit(s, name, detail) == RunHandlers(s, s.events[name], 1, detail)

\* ------------------------------------------------------ plugin factories
\* modernThemePresentationPlugin
ModernThemePresentationPlugin(s, o) ==
  ApiAddStyles(s, ThemeStyleId, ThemeStylePriority, o)

\* An external plugin module that uses every registry of the capability API.
CustomPlugin(s, o) ==
  ApiOn(ApiAddFooterItem(ApiAddToolbarItem(
          ApiSetHeaderRenderer(ApiSetCellRenderer(s, "a", o), "a", o), o), o),
        "data", Handler(o, "custom"))

\* An external plugin module whose factory subscribes a handler that throws
\* and then throws itself.
ThrowingPlugin(s, o) == ApiOn(s, "data", Handler(o, "throws"))

\* An external plugin module that counts the calls of the disposer it returns:
\*   export default () => { let n = 0; return () => { n += 1; }; }
\* and one whose disposer throws after counting (kind "counting-throws").
CountingPlugin(s, o) == [s EXCEPT !.disposed = (o :> 0) @@ @]

\* (A plugin of kind "inert" is an external module whose factory registers
\* nothing and returns no disposer; one of kind "rejects" is an async function
\* that registers nothing and throws; one of kind "supplier" registers a data
\* provider of kind "broken", whose start() throws.)
\* p.factory(api, p.ref?.options || {}) up to its first suspension
CallFactory(s, c, p) ==
  LET o == [cyc |-> c, id |-> p.id]
  IN CASE p.kind = "theme" -> ModernThemePresentationPlugin(s, o)
       [] p.kind = "custom" -> CustomPlugin(s, o)
       [] p.kind = "pagination" -> CreatePaginationPlugin(s, o, p.options)
       [] p.kind = "filter" -> CreateFilterPlugin(s, o)
       [] p.kind = "sort" -> CreateSortPlugin(s, o)
       [] p.kind = "throws" -> ThrowingPlugin(s, o)
       [] p.kind \in {"counting", "counting-throws"} -> CountingPlugin(s, o)
       [] p.kind = "supplier" -> ApiRegisterDataProvider(s, "broken")
       [] OTHER -> s

\* the call of the factory throws: control reaches the catch in the same step
Throws(p) == p.kind = "throws"

\* the factory throws or the promise it returns is rejected
Fails(p) == p.kind \in {"throws", "rejects"}

\* Leaving the plugin loop at the first failure: what the plugin property C11
\* has to tell apart from the catch inside the loop.
LoopNextUnlessFailed(list, i, failed) == IF failed THEN Len(list) + 1 ELSE i + 1

\* for (const p of this.#plugins) { try {...} catch (e) {...} }: the index
\* the loop goes on with after the iteration at index i
LoopNext(list, i, failed) == i + 1

\* the plugin loop from index i on, up to the first `await` that suspends it
RECURSIVE PluginLoop(_, _, _, _)
PluginLoop(s, c, list, i) ==
  IF i > Len(list) THEN [s |-> s, idx |-> i, called |-> <<>>]
  ELSE LET After(s1) ==
             IF Throws(list[i])
             THEN [PluginLoop(s1, c, list, LoopNext(list, i, TRUE))
                     EXCEPT !.called = <<list[i]>> \o @]
             ELSE [s |-> s1, idx |-> i, called |-> <<list[i]>>]
       IN After(CallFactory(s, c, list[i]))

\* typeof disposer === "function"
ReturnsDisposer(p) ==
  p.kind \in {"theme", "custom", "pagination", "filter", "sort", "counting",
              "counting-throws"}

Disposer(c, p) == [cyc |-> c, id |-> p.id, kind |-> p.kind]

RunDisposer(s, d) ==
  LET o == [cyc |-> d.cyc, id |-> d.id]
  IN CASE d.kind = "theme" -> RemoveStyles(s, ThemeStyleId)
       [] d.kind = "custom" -> Unsubscribe(s, "data", Handler(o, "custom"))
       [] d.kind = "pagination" ->
            Unsubscribe(Unsubscribe(Unsubscribe(s, "grid:sorted", Handler(o, "onSorted")),
                                    "grid:filtered", Handler(o, "onFiltered")),
                        "data", Handler(o, "onDataSnapshot"))
       [] d.kind = "filter" -> Unsubscribe(s, "data", Handler(o, "refreshBase"))
       [] d.kind = "sort" ->
            Unsubscribe(Unsubscribe(s, "grid:filtered", Handler(o, "sortOnFiltered")),
                        "data", Handler(o, "sortOnDataSnapshot"))
       [] d.kind \in {"counting", "counting-throws"} -> [s EXCEPT !.disposed[o] = @ + 1]
       [] OTHER -> s

\* the call d() throws
DisposerThrows(d) == d.kind = "counting-throws"

\* Leaving the loop over the disposers at the first one that throws: what
\* HeldDisposersRun has to tell apart from the catch inside the loop.
DisposeNextUnlessThrown(ds, i, threw) == IF threw THEN Len(ds) + 1 ELSE i + 1

\* for (const d of ...) { try { d(); } catch (_) { /* ignore */ } }: the index
\* the loop goes on with after the disposer at index i
DisposeNext(ds, i, threw) == i + 1

RECURSIVE RunAll(_, _, _)
RunAll(s, ds, i) ==
  IF i > Len(ds) THEN s
  ELSE RunAll(RunDisposer(s, ds[i]), ds, DisposeNext(ds, i, DisposerThrows(ds[i])))

\* for (const d of this.#pluginDisposers.splice(0)) { try { d() } catch {} }
RunDisposers(s) ==
  RunAll([s EXCEPT !.pluginDisposers = <<>>], s.pluginDisposers, 1)


\* ------------------------------------------------------ applySseMessage
\* Removing the key and appending it again: what the merge property C13 has
\* to tell apart from Map.prototype.set.
MapSetMoved(m, r) == Append(SelectSeq(m, LAMBDA x : x.id # r.id), r)

\* Map.prototype.set: an existing key keeps its position, a new one is appended.
MapSet(m, r) ==
  IF \E i \in 1..Len(m) : m[i].id = r.id
  THEN [i \in 1..Len(m) |-> IF m[i].id = r.id THEN r ELSE m[i]]
  ELSE Append(m, r)

RECURSIVE MapSetAll(_, _, _)
MapSetAll(m, rows, i) ==
  IF i > Len(rows) THEN m ELSE MapSetAll(MapSet(m, rows[i]), rows, i + 1)

UpsertInto(existing, rows) == MapSetAll(MapSetAll(<<>>, existing, 1), rows, 1)

\* payload: [json, type, snapshot, rows]; json is "object" for a parsed
\* object, "scalar" for any other parsed value.
ApplySseMessage(m, payload) ==
  IF payload.json # "object" THEN m
  ELSE IF payload.type = "setSnapshot" /\ payload.snapshot # None
  THEN LET sn == payload.snapshot[1]
       IN [m EXCEPT !.columns = OrElse(sn.columns, m.columns),
                    !.rows = OrElse(sn.rows, <<>>),
                    !.sort = OrElse(sn.sort, <<>>),
                    !.filters = OrElse(sn.filters, <<>>)]
  ELSE IF payload.type = "setRows" /\ payload.rows # None
  THEN [m EXCEPT !.rows = payload.rows[1]]
  ELSE IF payload.type = "upsertRows" /\ payload.rows # None
  THEN [m EXCEPT !.rows = UpsertInto(m.rows, payload.rows[1])]
  ELSE m

\* api.upsertRows
ApiUpsertRows(s, rows) ==
  IF rows = None THEN s
  ELSE [s EXCEPT !.model.rows = UpsertInto(s.model.rows, rows[1])]

\* --------------------------------------------------------- data providers
NewProvider(kind, ds) ==
  [kind |-> kind, ds |-> ds, started |-> FALSE, stopInvoked |-> FALSE,
   startDone |-> FALSE, es |-> FALSE, pollTimer |-> FALSE, abort |-> 0,
   reqs |-> {}, nreq |-> 0, first |-> 0]

EmptySnapshot == [columns |-> None, rows |-> None, sort |-> None, filters |-> None]

\* staticDataProvider(api).start
StaticStart(s, p, ds) ==
  LET snap == OrElse(ds.snapshot, EmptySnapshot)
      s1 == ApiSetSnapshot(s, [columns |-> snap.columns,
                               rows |-> Some(OrElse(snap.rows, <<>>)),
                               sort |-> Some(OrElse(snap.sort, <<>>)),
                               filters |-> Some(OrElse(snap.filters, <<>>))])
      s2 == ApiSetStatus(s1, "ready")
      s3 == Render(Emit(s2, "data", Detail(snap.rows, None, None)))
  IN [s3 EXCEPT !.providers[p].startDone = TRUE]

\* abort?.abort()
AbortCurrent(pr) ==
  [pr EXCEPT !.reqs = {IF r.rid = pr.abort THEN [r EXCEPT !.aborted = TRUE] ELSE r :
                         r \in pr.reqs}]

\* fetchOnce up to `await fetch(...)`
FetchOnce(s, p) ==
  LET s1 == Render(ApiSetStatus(s, "loading"))
      pr == AbortCurrent(s1.providers[p])
      rid == pr.nreq + 1
  IN [s1 EXCEPT !.providers[p] =
        [pr EXCEPT !.reqs = pr.reqs \cup {[rid |-> rid, aborted |-> FALSE]},
                   !.abort = rid, !.nreq = rid]]

\* fetchDataProvider(api).start up to `await fetchOnce(ds)`
FetchStart(s, p, ds) ==
  IF ~ds.url
  THEN [ApiSetError(ApiSetStatus(s, "error"), "Fetch data provider missing url.")
          EXCEPT !.providers[p].startDone = TRUE]
  ELSE LET s1 == FetchOnce(s, p)
       IN [s1 EXCEPT !.providers[p].first = s1.providers[p].abort]

\* A stop that aborts the request and leaves the timer: what the provider
\* property C16 has to tell apart from stop.
FetchStopKeepingTimer(pr) == [AbortCurrent(pr) EXCEPT !.abort = 0]

\* fetchDataProvider(api).stop
FetchStop(pr) ==
  [AbortCurrent(pr) EXCEPT !.abort = 0, !.pollTimer = FALSE]

\* sseDataProvider(api).start
SseStart(s, p, ds) ==
  IF ~ds.url
  THEN [ApiSetError(ApiSetStatus(s, "error"), "SSE data provider missing url.")
          EXCEPT !.providers[p].startDone = TRUE]
  ELSE [Render(ApiSetStatus(s, "loading"))
          EXCEPT !.providers[p].es = TRUE, !.providers[p].startDone = TRUE]

\* sseDataProvider(api).stop
SseStop(pr) == [pr EXCEPT !.es = FALSE]

\* start() of a provider registered by a plugin throws new Error("boom")
StartThrows(kind) == kind = "broken"

ProviderStart(s, p, ds) ==
  LET s1 == [s EXCEPT !.providers[p].started = TRUE]
  IN CASE s.providers[p].kind = "static" -> StaticStart(s1, p, ds)
       [] s.providers[p].kind = "fetch" -> FetchStart(s1, p, ds)
       [] s.providers[p].kind = "sse" -> SseStart(s1, p, ds)
       [] OTHER -> [s1 EXCEPT !.providers[p].startDone = TRUE]

ProviderStop(pr) ==
  LET stopped == CASE pr.kind = "fetch" -> FetchStop(pr)
                   [] pr.kind = "sse" -> SseStop(pr)
                   [] OTHER -> pr
  IN [stopped EXCEPT !.stopInvoked = TRUE]

\* Dropping the reference without calling stop(): what the provider property
\* C3 has to tell apart from #stopDataProvider.
DropDataProvider(s) == [s EXCEPT !.activeDataProvider = 0]

\* #stopDataProvider
StopDataProvider(s) ==
  IF s.activeDataProvider = 0 THEN s
  ELSE [s EXCEPT !.providers[s.activeDataProvider] =
                    ProviderStop(s.providers[s.activeDataProvider]),
                 !.activeDataProvider = 0]

ModelError(s, message) ==
  [s EXCEPT !.model.status = "error", !.model.error = message]

\* #startDataProvider up to `await this.#activeDataProvider.start(ds)`
StartDataProvider(s) ==
  LET ds == s.config.data
  IN IF ~ds.present THEN ModelError(s, "No data source configured.")
     ELSE IF ds.kind = "" THEN ModelError(s, "Data source kind missing.")
     ELSE IF ds.kind \notin s.dataProviderFactories
     THEN ModelError(s, "No data provider registered for kind: " \o ds.kind)
     ELSE LET Started(s3) ==
                IF StartThrows(ds.kind) THEN ModelError(s3, "Data provider failed: boom")
                ELSE s3
              Created(s1, p) ==
                Started(ProviderStart(
                          [s1 EXCEPT !.providers = Append(@, NewProvider(ds.kind, ds)),
                                     !.activeDataProvider = p], p, ds))
              Stopped(s1) == Created(s1, Len(s1.providers) + 1)
          IN Stopped(StopDataProvider(s))


\* ------------------------------------------------------- specs of the host
NoDS == [present |-> FALSE, kind |-> "", snapshot |-> None, url |-> FALSE, pollMs |-> 0]

\* this.#config = null, and the result of a failed #resolveConfig
NullCfg ==
  [valid |-> FALSE, columns |-> None, data |-> NoDS, plugins |-> <<>>,
   ui |-> [virtualization |-> NoVirtualization, tree |-> FALSE]]

Snapshot(rows) == [columns |-> None, rows |-> Some(rows), sort |-> None, filters |-> None]

StaticDS(rows) ==
  [present |-> TRUE, kind |-> "static", snapshot |-> Some(Snapshot(rows)),
   url |-> FALSE, pollMs |-> 0]

FetchDS(pollMs) ==
  [present |-> TRUE, kind |-> "fetch", snapshot |-> None, url |-> TRUE, pollMs |-> pollMs]

SseDS ==
  [present |-> TRUE, kind |-> "sse", snapshot |-> None, url |-> TRUE, pollMs |-> 0]

Cfg(columns, data, refs) ==
  [valid |-> TRUE, columns |-> columns, data |-> data, plugins |-> refs,
   ui |-> [virtualization |-> NoVirtualization, tree |-> FALSE]]

Rows3 == <<Row(1, 1), Row(2, 1), Row(3, 1)>>
Rows2 == <<Row(1, 2), Row(2, 2)>>
Rows1 == <<Row(2, 3)>>

PageOf(n) == [pageSize |-> Some(n), pageSizes |-> <<>>, mode |-> "auto"]

CfgStaticPaged ==
  Cfg(Some(<<"a">>), StaticDS(Rows3),
      <<Ref(Some(3), Some("grid-functionality"), None, "pagination", PageOf(2), Some(3))>>)

CfgFetch == Cfg(Some(<<"a">>), FetchDS(1000), <<>>)

CfgSse ==
  Cfg(Some(<<"a">>), SseDS,
      <<Ref(Some(1), None, Some(10), "custom", NoOptions, Some(1))>>)

CfgStaticPlain == Cfg(Some(<<"a">>), StaticDS(Rows3), <<>>)

MainPool == {NullCfg, CfgStaticPaged, CfgFetch, CfgSse}

StaticPool == {NullCfg, CfgStaticPaged, CfgStaticPlain}

Inert(id, nature, priority) == Ref(Some(id), nature, priority, "inert", NoOptions, Some(id))

\* the priority of the built-in plugin twice, declared against the order of
\* the ids and of the natures
CfgPair ==
  Cfg(Some(<<"a">>), StaticDS(Rows1),
      <<Inert(3, Some("grid-functionality"), Some(BuiltinPriority)),
        Inert(1, Some("content-supplier"), Some(BuiltinPriority))>>)

\* a priority below the one of the built-in plugin
CfgSolo ==
  Cfg(Some(<<"a">>), StaticDS(Rows1),
      <<Inert(1, Some("grid-functionality"), Some(BuiltinPriority - 1000))>>)

CfgSsePlain == Cfg(None, SseDS, <<>>)

ProviderPool == {CfgStaticPlain, CfgFetch, CfgSsePlain}

OrderPool == {CfgPair, CfgSolo}

\* a plugin whose factory throws, declared before the pagination plugin
CfgThrowing ==
  Cfg(Some(<<"a">>), StaticDS(Rows3),
      <<Ref(Some(1), Some("grid-functionality"), Some(DefaultPluginPriority - 1), "throws",
            NoOptions, Some(1)),
        Ref(Some(3), Some("grid-functionality"), None, "pagination", PageOf(2), Some(3))>>)

\* a plugin whose factory rejects, initialized before the built-in plugin
CfgRejecting ==
  Cfg(Some(<<"a">>), StaticDS(Rows1),
      <<Ref(Some(1), Some("grid-functionality"), Some(BuiltinPriority - 1), "rejects",
            NoOptions, Some(1))>>)

FaultyPool == {CfgThrowing, CfgRejecting}

\* a plugin whose disposer throws, initialized before one whose disposer
\* only counts its calls
CfgCounting ==
  Cfg(Some(<<"a">>), StaticDS(Rows1),
      <<Ref(Some(1), Some("grid-functionality"), None, "counting-throws", NoOptions,
            Some(1)),
        Ref(Some(3), Some("grid-functionality"), None, "counting", NoOptions, Some(3))>>)

DisposePool == {CfgCounting}

\* a stream source with the filter, sort and pagination plugins of the pack
CfgTypical ==
  Cfg(Some(<<"a">>), SseDS,
      <<Ref(Some(1), Some("grid-functionality"), None, "filter", NoOptions, Some(1)),
        Ref(Some(3), Some("grid-functionality"), None, "sort", NoOptions, Some(3)),
        Ref(Some(4), Some("grid-functionality"), None, "pagination", PageOf(2), Some(4))>>)

\* the same with three page sizes on offer (and one that is no size), and a
\* static source behind a pagination plugin in manual mode
PageSizesOf(n, sizes) == [pageSize |-> Some(n), pageSizes |-> sizes, mode |-> "auto"]
CfgPaging ==
  Cfg(Some(<<"a">>), SseDS,
      <<Ref(Some(1), Some("grid-functionality"), None, "filter", NoOptions, Some(1)),
        Ref(Some(3), Some("grid-functionality"), None, "sort", NoOptions, Some(3)),
        Ref(Some(4), Some("grid-functionality"), None, "pagination",
            PageSizesOf(2, <<1, 0, 3>>), Some(4))>>)
CfgManual ==
  Cfg(Some(<<"a">>), StaticDS(Rows3),
      <<Ref(Some(3), Some("grid-functionality"), None, "pagination",
            [PageSizesOf(2, <<1>>) EXCEPT !.mode = "manual"], Some(3))>>)
PagingPool == {CfgPaging, CfgManual}

\* specs whose data source cannot be started: none, one without a kind, one
\* of a kind nobody registers, one of the kind "broken" that the plugin of the
\* spec registers; and one with a static source
SourcePool ==
  {Cfg(None, NoDS, <<>>),
   Cfg(None, [StaticDS(Rows1) EXCEPT !.kind = ""], <<>>),
   Cfg(None, [StaticDS(Rows1) EXCEPT !.kind = "feed"], <<>>),
   Cfg(None, [StaticDS(Rows1) EXCEPT !.kind = "broken"],
       <<Ref(Some(1), Some("content-supplier"), None, "supplier", NoOptions, Some(1))>>),
   CfgStaticPlain}

\* ---- specs with ui.virtualization
WithUi(cfg, v) == [cfg EXCEPT !.ui.virtualization = v]

\* a row with a children member
Node(i, kids) == [id |-> i, v |-> 1, children |-> kids]

\* a tree three levels deep; row 7 has an empty children array
TreeRows ==
  <<Node(1, <<Node(2, <<Row(3, 1)>>), Row(4, 1)>>), Node(5, <<Row(6, 1)>>), Node(7, <<>>)>>

\* a chain: every row but the last has one child
ChainRows == <<Node(5, <<Node(1, <<Row(2, 1)>>)>>)>>

\* ui.tree.enabled set and not set
CfgTree == [Cfg(Some(<<"a">>), StaticDS(TreeRows), <<>>) EXCEPT !.ui.tree = TRUE]
CfgChain == [Cfg(Some(<<"a">>), StaticDS(ChainRows), <<>>) EXCEPT !.ui.tree = TRUE]
CfgNoTree == Cfg(Some(<<"a">>), StaticDS(TreeRows), <<>>)
TreePool == {CfgTree, CfgChain, CfgNoTree}

\* the arrays passed to setTreeExpansion (row ids as they are in the rows) and
\* the data-row-id values of the rows whose expander is clicked
ExpansionLists == {<<>>, <<1, 2, 5, 7>>, <<2, 5>>}
ToggledIds == {"1", "2", "3", "5", "7"}

ManyRows(n) == [i \in 1..n |-> Row(i, 1)]
ManyColumns(n) == [i \in 1..n |-> "a"]
Rows4 == ManyRows(4)

\* virtualization switched on by the spec: one row and two columns (of 160
\* and 200 px) fit the viewport
VirtOn ==
  [NoVirtualization EXCEPT !.enabled = Some(TRUE), !.rowHeightPx = Some(160),
                           !.viewportHeightPx = Some(160), !.bufferRows = Some(0),
                           !.viewportWidthPx = Some(200), !.columnBuffer = Some(0)]

CfgVirtual == WithUi(Cfg(Some(<<"a", "wide", "b">>), SseDS, <<>>), VirtOn)

\* counts at and just above the thresholds, given and default; explicit
\* settings against the counts
ThresholdPool ==
  {WithUi(Cfg(Some(<<"a">>), StaticDS(Rows3), <<>>), v) :
     v \in {[NoVirtualization EXCEPT !.rowThreshold = Some(2)],
            [NoVirtualization EXCEPT !.rowThreshold = Some(3)],
            [NoVirtualization EXCEPT !.columnThreshold = Some(0)],
            [NoVirtualization EXCEPT !.columnThreshold = Some(1)],
            [NoVirtualization EXCEPT !.enabled = Some(TRUE), !.rowThreshold = Some(3)],
            [NoVirtualization EXCEPT !.enabled = Some(FALSE), !.rowThreshold = Some(2)]}}
  \cup {Cfg(Some(ManyColumns(c)), StaticDS(ManyRows(n)), <<>>) :
          n \in {DefaultRowThreshold, DefaultRowThreshold + 1},
          c \in {DefaultColumnThreshold, DefaultColumnThreshold + 1}}

RenderPool == ThresholdPool \cup {CfgVirtual, CfgTypical}

\* snapshots a plugin passes to setSnapshot: with and without each member
PluginRows == <<Row(9, 9)>>
PluginSnapshots ==
  {EmptySnapshot,
   Snapshot(PluginRows),
   [columns |-> Some(<<"b">>), rows |-> None, sort |-> Some(<<"a">>),
    filters |-> Some(<<"a">>)]}

\* what plugins pass to addStyles and the host page to setThemeCss
StyleIds == {"a-style", "z-style"}
StylePriorities == {-1, 0}
ThemeCss == {"", "user rules"}

\* scroll offsets of the viewport, px
ScrollTops == {0, 160, 480}
ScrollLefts == {0, 200, 320}

\* what a poll request can come back with
FetchOutcomes == {"ok", "http500"}
FetchedSnapshot == Snapshot(Rows2)

\* what the event stream can deliver
Msg(json, type, snapshot, rows) ==
  [json |-> json, type |-> type, snapshot |-> snapshot, rows |-> rows]

Recognized ==
  {Msg("object", "setSnapshot", Some(Snapshot(Rows2)), None),
   Msg("object", "upsertRows", None, Some(Rows1))}

Unrecognized ==
  {Msg("object", "ping", None, None),
   Msg("object", "setRows", None, None)}

\* updates that repeat an id, bring new ids and change rows already held
UpsertStream ==
  {Msg("object", "setSnapshot", Some(Snapshot(Rows2)), None),
   Msg("object", "upsertRows", None, Some(<<Row(2, 3), Row(4, 3), Row(2, 4)>>)),
   Msg("object", "upsertRows", None, Some(<<Row(5, 5), Row(1, 5)>>))}

\* a snapshot with rows of two cell values, and an update with one more row
TypicalStream ==
  {Msg("object", "setSnapshot", Some(Snapshot(<<Row(1, 2), Row(2, 1), Row(3, 2)>>)), None),
   Msg("object", "upsertRows", None, Some(<<Row(4, 1)>>))}

\* snapshots of four rows and of two
ScrollStream ==
  {Msg("object", "setSnapshot", Some(Snapshot(Rows4)), None),
   Msg("object", "setSnapshot", Some(Snapshot(Rows2)), None)}

\* snapshots of four rows, of one row and of none
RenderStream ==
  {Msg("object", "setSnapshot", Some(Snapshot(Rows4)), None),
   Msg("object", "setSnapshot", Some(Snapshot(Rows1)), None),
   Msg("object", "setSnapshot", Some(Snapshot(<<>>)), None)}

\* what the user can type into the filter input
Terms == {<<>>, <<"1">>, <<" ", "2">>}

Messages == Recognized \cup Unrecognized \cup {Msg("invalid", "", None, None)}

\* ---------------------------------------------------------- #resolveConfig
\* What #resolveConfig reads: the data-init attribute (trimmed, lower case)
\* and what each of its four sources yields, a spec or nothing.
Dom(mode, internal, external, table, factory) ==
  [mode |-> mode, internal |-> internal, external |-> external, table |-> table,
   factory |-> factory, unstyled |-> FALSE]

\* an element that holds cfg as its inline JSON block and sets no mode
Inline(cfg) == Dom("", IF cfg.valid THEN Some(cfg) ELSE None, None, None, None)

\* #resolveConfig; NullCfg stands for the null it returns
ResolveConfig(d) ==
  LET Either(a, b) == IF a # None THEN a ELSE b    \* a || b
      tryInternalJson == d.internal
      tryExternalJson == d.external
      tryTable == d.table
      tryFactory == d.factory
      found == CASE d.mode = "json" -> Either(tryInternalJson, tryExternalJson)
                 [] d.mode = "table" -> tryTable
                 [] d.mode = "factory" -> tryFactory
                 [] OTHER -> Either(Either(Either(tryInternalJson, tryExternalJson),
                                           tryTable), tryFactory)
  IN OrElse(found, NullCfg)

\* elements with a mode set, where the source of that mode yields nothing
ModePool ==
  {Dom("json", None, Some(CfgStaticPlain), None, None),
   Dom("table", Some(CfgStaticPlain), None, None, None),
   Dom("factory", None, None, Some(CfgSolo), None),
   Dom("table", None, None, Some(CfgSolo), None)}

\* a spec on an element with and without the data-unstyled attribute
StylePool ==
  {Inline(CfgStaticPlain), [Inline(CfgStaticPlain) EXCEPT !.unstyled = TRUE]}

\* ------------------------------------------------------------------ Init
InitDom(p, st) ==
  /\ pool = p
  /\ stream = st
  /\ dom \in p
  /\ isConnected = FALSE
  /\ initDone = FALSE
  /\ reinitQueued = FALSE
  /\ config = NullCfg
  /\ model = EmptyModel
  /\ cellRenderers = {}
  /\ headerRenderers = {}
  /\ toolbarItems = <<>>
  /\ footerItems = <<>>
  /\ events = NoEvents
  /\ pluginDisposers = <<>>
  /\ pluginStyleSheets = <<>>
  /\ dataProviderFactories = {}
  /\ plugins = <<>>
  /\ activeDataProvider = 0
  /\ view = <<>>
  /\ virtualizationState = [rowStart |-> 0, colStart |-> 0]
  /\ userCss = ""
  /\ pluginBaseStylesInjected = FALSE
  /\ pag = [o \in {} |-> 0]
  /\ disposed = [o \in {} |-> 0]
  /\ scrollQueued = FALSE
  /\ treeExpandedIds = {}
  /\ flt = [o \in {} |-> 0]
  /\ srt = [o \in {} |-> 0]
  /\ providers = <<>>
  /\ cycles = <<>>
  /\ initLog = <<>>
  /\ mq = <<>>
  /\ ticks = 0
  /\ msgs = 0

\* the host page gives every spec of p as an inline JSON block
InitWith(p, st) == InitDom({Inline(cfg) : cfg \in p}, st)

Init == InitWith(MainPool, Messages)

\* ------------------------------------------------------ microtask queue
\* Continuations of awaits on settled promises, the microtask queued by
\* attributeChangedCallback and the rejection of an aborted fetch run in the
\* order they were queued.  Completions that come from outside (a module
\* import, an HTTP response, a timer, an EventSource event) are tasks: they
\* run when no microtask is pending.  Calls made by the host page (insert,
\* remove, set an attribute) can come at any point between two steps.
CycleTask(c) == [k |-> "cycle", c |-> c, p |-> 0, rid |-> 0]
ReinitTask == [k |-> "reinit", c |-> 0, p |-> 0, rid |-> 0]
AbortTask(p, rid) == [k |-> "abort", c |-> 0, p |-> p, rid |-> rid]

IsHead(task) == mq # <<>> /\ Head(mq) = task

Idle == mq = <<>>

\* the requests of provider p that abort() rejects now
Rejected(before, after, p) ==
  {r.rid : r \in {x \in after[p].reqs : x.aborted}} \
  {r.rid : r \in {x \in before[p].reqs : x.aborted}}

\* the rejections caused by a step from state s to state s2 (at most one per
\* provider, because abort() reaches the current request only)
RECURSIVE NewAborts(_, _, _)
NewAborts(s, s2, p) ==
  IF p > Len(s.providers) THEN <<>>
  ELSE LET rids == Rejected(s.providers, s2.providers, p)
       IN (IF rids = {} THEN <<>> ELSE <<AbortTask(p, CHOOSE r \in rids : TRUE)>>)
          \o NewAborts(s, s2, p + 1)

\* --------------------------------------------------- initialization cycle
NewCycle(cfg, force) ==
  [pc |-> "resolve", cfg |-> cfg, force |-> force, li |-> 0, loaded |-> <<>>, order |-> 0,
   plugins |-> <<>>, idx |-> 0, prov |-> 0]

\* #initializeIfNeeded up to `await this.#resolveConfig()`; #resolveConfig has
\* no await of its own, so the spec is read from the DOM d in the same step.
\* s is the state the statements before it have left, q the queue they left,
\* force the argument of the call.
BeginCycle(s, d, q, force) ==
  /\ initDone' = TRUE
  /\ Put([s EXCEPT !.model.status = "loading"])
  /\ cycles' = Append(cycles, NewCycle(ResolveConfig(d), force))
  /\ initLog' = Append(initLog, <<>>)
  /\ mq' = Append(q, CycleTask(Len(cycles) + 1))

Budget == Len(cycles) + (IF reinitQueued THEN 1 ELSE 0)

\* connectedCallback.  d is what the DOM holds when the element is inserted:
\* attributes set while the element is detached reach no callback.
Connect(d) ==
  /\ ~isConnected
  /\ d \in pool
  /\ isConnected' = TRUE
  /\ UNCHANGED <<pool, stream, reinitQueued, ticks, msgs>>
  /\ IF initDone
     THEN d = dom /\ UNCHANGED <<dom, initDone, gridVars, cycles, initLog, mq>>
     ELSE Budget < MaxCycles /\ dom' = d /\ BeginCycle(Cur, d, mq, FALSE)

\* disconnectedCallback
Disconnect ==
  /\ isConnected
  /\ isConnected' = FALSE
  /\ LET s2 == RunDisposers(StopDataProvider(Cur))
     IN Put(s2) /\ mq' = mq \o NewAborts(Cur, s2, 1)
  /\ initDone' = FALSE
  /\ UNCHANGED <<pool, stream, dom, reinitQueued, cycles, initLog, ticks, msgs>>

\* An observed attribute is set by the host on the connected, initialized
\* element: attributeChangedCallback.  (Before that the callback returns at
\* once; the new value is what the next connect reads.)
AttributeChange(d) ==
  /\ d \in pool
  /\ isConnected
  /\ initDone
  /\ reinitQueued \/ Budget < MaxCycles
  /\ dom' = d
  /\ reinitQueued' = TRUE
  /\ mq' = IF reinitQueued THEN mq ELSE Append(mq, ReinitTask)
  /\ UNCHANGED <<pool, stream, isConnected, initDone, gridVars, cycles, initLog, ticks, msgs>>

\* #reinitialize up to the call of #initializeIfNeeded(true)
Reinitialize(s) ==
  LET s1 == RunDisposers(StopDataProvider(s))
  IN [s1 EXCEPT !.cellRenderers = {},
                !.headerRenderers = {},
                !.toolbarItems = <<>>,
                !.footerItems = <<>>,
                !.events = NoEvents,
                !.pluginStyleSheets = <<>>,
                !.dataProviderFactories = {},
                !.plugins = <<>>,
                !.config = NullCfg,
                !.model = EmptyModel,
                !.treeExpandedIds = {},
                !.virtualizationState = [rowStart |-> 0, colStart |-> 0]]

\* the microtask queued by attributeChangedCallback
ReinitRun ==
  /\ IsHead(ReinitTask)
  /\ reinitQueued' = FALSE
  /\ LET s2 == Reinitialize(Cur)
     IN BeginCycle(s2, dom, Tail(mq) \o NewAborts(Cur, s2, 1), TRUE)
  /\ UNCHANGED <<pool, stream, dom, isConnected, ticks, msgs>>

SetCycle(c, rec) == cycles' = [cycles EXCEPT ![c] = rec]

\* index of the first reference from i on that loadExternalPlugins imports
RECURSIVE NextImport(_, _)
NextImport(refs, i) ==
  IF i > Len(refs) THEN i
  ELSE IF refs[i].moduleUrl = None THEN NextImport(refs, i + 1)
  ELSE i

\* continuation of `await this.#resolveConfig()`
AfterResolve(c) ==
  /\ IsHead(CycleTask(c))
  /\ cycles[c].pc = "resolve"
  /\ IF ~cycles[c].cfg.valid
     THEN /\ Put(Render(ModelError(Cur, "Missing or invalid grid config.")))
          /\ SetCycle(c, [cycles[c] EXCEPT !.pc = "done"])
          /\ mq' = Tail(mq)
     ELSE LET li == NextImport(cycles[c].cfg.plugins, 1)
          IN /\ Put(ApiRegisterDataProvider(ApiRegisterDataProvider(ApiRegisterDataProvider(
                      [Cur EXCEPT !.config = cycles[c].cfg], "static"), "fetch"), "sse"))
             /\ SetCycle(c, [cycles[c] EXCEPT !.pc = "load", !.li = li])
             /\ mq' = IF li > Len(cycles[c].cfg.plugins)
                      THEN Append(Tail(mq), CycleTask(c))
                      ELSE Tail(mq)
  /\ UNCHANGED <<pool, stream, dom, isConnected, initDone, reinitQueued, initLog, ticks, msgs>>

LoadOutcomes == {"ok", "failed", "nodefault"}

\* the LoadedPlugin that loadExternalPlugins pushes for a reference
Loaded(ref, order) ==
  [id |-> OrElse(ref.id, OrElse(ref.moduleUrl, 0)),
   nature |-> OrElse(ref.nature, "grid-functionality"),
   priority |-> OrElse(ref.priority, DefaultPluginPriority),
   kind |-> ref.kind, options |-> ref.options, order |-> Some(order)]

\* `await import(ref.moduleUrl)` of loadExternalPlugins settles
LoadStep(c, outcome) ==
  /\ Idle
  /\ c \in 1..Len(cycles)
  /\ cycles[c].pc = "load"
  /\ outcome \in LoadOutcomes
  /\ LET cy == cycles[c]
         refs == cy.cfg.plugins
         li == NextImport(refs, cy.li + 1)
     IN /\ cy.li <= Len(refs)
        /\ SetCycle(c, [cy EXCEPT
              !.loaded = IF outcome = "ok"
                         THEN Append(cy.loaded, Loaded(refs[cy.li], cy.order))
                         ELSE cy.loaded,
              !.order = IF outcome = "ok" THEN cy.order + 1 ELSE cy.order,
              !.li = li])
        /\ mq' = IF li > Len(refs) THEN Append(mq, CycleTask(c)) ELSE mq
  /\ UNCHANGED <<pool, stream, dom, isConnected, initDone, reinitQueued, gridVars, initLog,
                 ticks, msgs>>

\* A factory that returns a promise settled from outside (the custom plugin)
\* resumes the loop as a task; any other result resumes it as a microtask.
IsAsyncFactory(p) == p.kind = "custom"

AfterCall(q, c, p) == IF IsAsyncFactory(p) THEN q ELSE Append(q, CycleTask(c))

\* The plugin loop of cycle c goes on at index i of list, from state s with
\* queue q: up to the next `await p.factory(...)` that suspends it or, when
\* the list is exhausted, up to `await this.#startDataProvider()`.
ResumeLoop(c, s, q, list, i) ==
  LET Started(s1, s2, new, p) ==
        /\ Put(s2)
        /\ SetCycle(c, [cycles[c] EXCEPT !.pc = "start", !.plugins = list, !.prov = p])
        /\ mq' = (q \o NewAborts(s1, s2, 1))
                 \o (IF new /\ ~s2.providers[p].startDone
                     THEN <<>> ELSE <<CycleTask(c)>>)
      Start(s1, s2) ==
        Started(s1, s2, Len(s2.providers) > Len(s1.providers),
                IF Len(s2.providers) > Len(s1.providers) THEN Len(s2.providers) ELSE 0)
      Resumed(r) ==
        /\ initLog' = [initLog EXCEPT ![c] = @ \o r.called]
        /\ IF r.idx <= Len(list)
           THEN /\ Put(r.s)
                /\ SetCycle(c, [cycles[c] EXCEPT !.pc = "plugin", !.plugins = list,
                                                 !.idx = r.idx])
                /\ mq' = AfterCall(q, c, list[r.idx])
           ELSE Start(r.s, StartDataProvider(r.s))
  IN Resumed(PluginLoop(s, c, list, i))

\* continuation of `await loadExternalPlugins(pluginRefs)`: the sort and the
\* plugin loop from its first iteration
StartPlugins(c) ==
  /\ IsHead(CycleTask(c))
  /\ cycles[c].pc = "load"
  /\ LET sorted == SortPlugins(<<BuiltinPlugin>> \o cycles[c].loaded)
     IN ResumeLoop(c, [Cur EXCEPT !.plugins = sorted], Tail(mq), sorted, 1)
  /\ UNCHANGED <<pool, stream, dom, isConnected, initDone, reinitQueued, ticks, msgs>>

\* the promise of a factory that fails is rejected: no disposer is kept
PushDisposer(s, c, p) ==
  IF ReturnsDisposer(p)
  THEN [s EXCEPT !.pluginDisposers = Append(s.pluginDisposers, Disposer(c, p))]
  ELSE s

\* continuation of `await p.factory(...)`: the disposer is kept or the
\* rejection is caught, then the loop goes on
AfterFactory(c) ==
  /\ c \in 1..Len(cycles)
  /\ cycles[c].pc = "plugin"
  /\ IF IsAsyncFactory(cycles[c].plugins[cycles[c].idx])
     THEN Idle
     ELSE IsHead(CycleTask(c))
  /\ LET cy == cycles[c]
         p == cy.plugins[cy.idx]
     IN ResumeLoop(c, PushDisposer(Cur, c, p), IF Idle THEN mq ELSE Tail(mq),
                   cy.plugins, LoopNext(cy.plugins, cy.idx, Fails(p)))
  /\ UNCHANGED <<pool, stream, dom, isConnected, initDone, reinitQueued, ticks, msgs>>

\* continuation of `await this.#startDataProvider()`
AfterStart(c) ==
  /\ IsHead(CycleTask(c))
  /\ cycles[c].pc = "start"
  /\ Put(Render(Cur))
  /\ SetCycle(c, [cycles[c] EXCEPT !.pc = "done"])
  /\ mq' = Tail(mq)
  /\ UNCHANGED <<pool, stream, dom, isConnected, initDone, reinitQueued, initLog, ticks, msgs>>

\* ------------------------------------------------------- provider events
FetchedSnapshotArg ==
  [columns |-> FetchedSnapshot.columns,
   rows |-> Some(OrElse(FetchedSnapshot.rows, <<>>)),
   sort |-> Some(OrElse(FetchedSnapshot.sort, <<>>)),
   filters |-> Some(OrElse(FetchedSnapshot.filters, <<>>))]

\* A catch block that also drops the rows: what the poll property C14 has to
\* tell apart from the catch block of fetchOnce.
FetchFailedClearing(s, message) ==
  Render(ApiSetRows(ApiSetError(ApiSetStatus(s, "error"), "Fetch failed: " \o message),
                    None))

\* the catch block of fetchOnce; message is e.message
FetchFailed(s, message) ==
  Render(ApiSetError(ApiSetStatus(s, "error"), "Fetch failed: " \o message))

\* fetchOnce from `await fetch(...)` on
FetchOnceRest(s, outcome) ==
  CASE outcome = "ok" ->
         Render(Emit(ApiSetStatus(ApiSetSnapshot(s, FetchedSnapshotArg), "ready"),
                     "data", Detail(FetchedSnapshot.rows, None, None)))
    [] outcome = "http500" -> FetchFailed(s, "HTTP 500")
    [] OTHER -> FetchFailed(s, "The operation was aborted.")

\* A start that installs the timer only when the first request succeeded:
\* what the poll property C15 has to tell apart from start.
FetchStartRestUnlessFailed(s, p) ==
  [s EXCEPT !.providers[p].first = 0,
            !.providers[p].pollTimer =
               IF s.providers[p].ds.pollMs > 0 /\ s.model.status # "error"
               THEN TRUE ELSE s.providers[p].pollTimer,
            !.providers[p].startDone = TRUE]

\* fetchDataProvider(api).start from `await fetchOnce(ds)` on
FetchStartRest(s, p) ==
  [s EXCEPT !.providers[p].first = 0,
            !.providers[p].pollTimer =
               IF s.providers[p].ds.pollMs > 0 THEN TRUE ELSE s.providers[p].pollTimer,
            !.providers[p].startDone = TRUE]

\* the cycle whose `await this.#activeDataProvider.start(ds)` provider p ends
Awaiting(p) == {c \in 1..Len(cycles) : cycles[c].pc = "start" /\ cycles[c].prov = p}

Settle(p, rid, outcome, q) ==
  \E r \in providers[p].reqs :
    /\ r.rid = rid
    /\ LET s0 == [Cur EXCEPT !.providers[p].reqs = providers[p].reqs \ {r}]
       IN IF providers[p].first = rid
          THEN /\ Put(FetchStartRest(FetchOnceRest(s0, outcome), p))
               /\ mq' = IF Awaiting(p) = {} THEN q
                        ELSE Append(q, CycleTask(CHOOSE c \in Awaiting(p) : TRUE))
          ELSE Put(FetchOnceRest(s0, outcome)) /\ mq' = q

\* the response of a request arrives
FetchSettle(p, rid, outcome) ==
  /\ Idle
  /\ p \in 1..Len(providers)
  /\ outcome \in FetchOutcomes
  /\ \E r \in providers[p].reqs : r.rid = rid /\ ~r.aborted
  /\ Settle(p, rid, outcome, mq)
  /\ UNCHANGED <<pool, stream, dom, isConnected, initDone, reinitQueued, cycles, initLog,
                 ticks, msgs>>

\* the rejection of an aborted request reaches the catch of fetchOnce
FetchAborted(p, rid) ==
  /\ IsHead(AbortTask(p, rid))
  /\ Settle(p, rid, "aborted", Tail(mq))
  /\ UNCHANGED <<pool, stream, dom, isConnected, initDone, reinitQueued, cycles, initLog,
                 ticks, msgs>>

\* the setInterval callback of fetchDataProvider
PollTick(p) ==
  /\ Idle
  /\ p \in 1..Len(providers)
  /\ providers[p].pollTimer
  /\ ticks < MaxTicks
  /\ ticks' = ticks + 1
  /\ LET s2 == FetchOnce(Cur, p)
     IN Put(s2) /\ mq' = mq \o NewAborts(Cur, s2, 1)
  /\ UNCHANGED <<pool, stream, dom, isConnected, initDone, reinitQueued, cycles, initLog, msgs>>

\* onMsg of sseDataProvider
OnMsg(s, payload) ==
  IF payload.json = "invalid" THEN s
  ELSE LET m1 == ApplySseMessage(s.model, payload)
           m2 == IF Len(m1.columns) = 0
                 THEN [m1 EXCEPT !.columns = OrElse(s.config.columns, <<>>)]
                 ELSE m1
           s1 == ApiSetStatus([s EXCEPT !.model = m2], "ready")
           payloadRows == IF payload.json = "object" THEN payload.rows ELSE None
       IN Render(Emit(s1, "data", Detail(payloadRows, None, None)))

SseMessage(p, payload) ==
  /\ Idle
  /\ p \in 1..Len(providers)
  /\ providers[p].es
  /\ payload \in stream
  /\ msgs < MaxMsgs
  /\ msgs' = msgs + 1
  /\ Put(OnMsg(Cur, payload))
  /\ UNCHANGED <<pool, stream, dom, isConnected, initDone, reinitQueued, cycles, initLog,
                 mq, ticks>>

\* es.onerror
OnError(s) ==
  Render(ApiSetError(ApiSetStatus(s, "error"), "SSE connection error."))

SseError(p) ==
  /\ Idle
  /\ p \in 1..Len(providers)
  /\ providers[p].es
  /\ msgs < MaxMsgs
  /\ msgs' = msgs + 1
  /\ Put(OnError(Cur))
  /\ UNCHANGED <<pool, stream, dom, isConnected, initDone, reinitQueued, cycles, initLog,
                 mq, ticks>>

\* ------------------------------------------------------------ user input
\* Events of the controls that the plugins put into the grid; like every
\* event from outside they are handled when no microtask is pending.
UserEvent(s) ==
  /\ Idle
  /\ isConnected
  /\ Put(s)
  /\ UNCHANGED <<pool, stream, dom, isConnected, initDone, reinitQueued, cycles, initLog,
                 mq, ticks, msgs>>

\* the input event of the filter input of instance o
FilterInput(o, term) ==
  /\ o \in DOMAIN flt
  /\ \E i \in DOMAIN toolbarItems : toolbarItems[i] = o
  /\ term \in Terms \ {flt[o].value}
  /\ UserEvent(ApplyFilters([Cur EXCEPT !.flt[o].value = term], o, term))

\* a click on the header button that sort instance o renders for a column
HeaderClick(o, columnKey, multi) ==
  /\ o \in DOMAIN srt
  /\ view # <<>>
  /\ Wrap(view[1]).table # None
  /\ [key |-> columnKey, fn |-> o] \in headerRenderers
  /\ UserEvent(ToggleSort(Cur, o, columnKey, multi))

\* a click on the Next button of pagination instance o; refreshButtons keeps
\* the button disabled on the last page, and a disabled button gets no click
NextClick(o) ==
  /\ o \in DOMAIN pag
  /\ \E i \in DOMAIN footerItems : footerItems[i] = o
  /\ LET pg == pag[o]
         totalPages == Max(1, CeilDiv(pg.totalRowsCount, pg.currentPageSize))
     IN /\ pg.currentPage < totalPages - 1
        /\ UserEvent(OnNextClick(Cur, o))

\* a click on the Prev button of pagination instance o (disabled on the first
\* page)
PrevClick(o) ==
  /\ o \in DOMAIN pag
  /\ \E i \in DOMAIN footerItems : footerItems[i] = o
  /\ pag[o].currentPage > 0
  /\ UserEvent(OnPrevClick(Cur, o))

\* the user picks another option of the page size select of instance o
PageSizeChange(o, nextSize) ==
  /\ o \in DOMAIN pag
  /\ \E i \in DOMAIN toolbarItems : toolbarItems[i] = o
  /\ nextSize \in pag[o].pageSizes \ {pag[o].currentPageSize}
  /\ UserEvent(OnPageSizeChange(Cur, o, nextSize))

\* the scroll event of the viewport that the last render has built
Scroll(scrollTop, scrollLeft) ==
  /\ view # <<>>
  /\ view[1].model.status # "error"
  /\ Virtualized(view[1])
  /\ LET Within(range) == scrollTop <= range.top /\ scrollLeft <= range.left
     IN Within(ScrollRange(view[1]))
  /\ UserEvent(HandleScroll(Cur, scrollTop, scrollLeft))

\* The scroll event queued by the position assignment of the last render is
\* fired: #virtualizationScrollBlocked is false again by then, and the
\* offsets the listener reads are the ones the assignment left.
ScrollAssigned ==
  /\ scrollQueued
  /\ view # <<>>
  /\ ScrollMoved(view[1])
  /\ LET Fired(at) == HandleScroll([Cur EXCEPT !.scrollQueued = FALSE], at.top, at.left)
     IN UserEvent(Fired(AssignedScroll(view[1])))

\* ------------------------------------------------------- calls of plugins
\* A plugin keeps the API object it was given and calls it from its own
\* callbacks, which are tasks like every event from outside.
ApiHeld == \E c \in 1..Len(cycles) : cycles[c].idx > 0

PluginCall(s) ==
  /\ Idle
  /\ ApiHeld
  /\ Put(s)
  /\ UNCHANGED <<pool, stream, dom, isConnected, initDone, reinitQueued, cycles, initLog,
                 mq, ticks, msgs>>

\* requestRender: () => this.#render()
ApiRequestRender(s) == Render(s)

\* setTreeExpansion(ids), ids an array
ApiSetTreeExpansion(s, ids) ==
  [s EXCEPT !.treeExpandedIds = {ToString(ids[i]) : i \in DOMAIN ids}]

\* updateTreeExpansion((next) => next.has(id) ? next.delete(id) : next.add(id))
ApiToggleTreeExpansion(s, id) ==
  [s EXCEPT !.treeExpandedIds = IF id \in @ THEN @ \ {id} ELSE @ \cup {id}]

RECURSIVE RenderTimes(_, _)
RenderTimes(s, n) == IF n = 0 THEN s ELSE RenderTimes(ApiRequestRender(s), n - 1)

\* n calls of requestRender() in a row
RequestRender(n) ==
  /\ n \in 1..MaxCalls
  /\ PluginCall(RenderTimes(Cur, n))

\* setTreeExpansion(ids) and requestRender(), as the expand-all and
\* collapse-all buttons of the tree plugin call them
SetTreeExpansionCall(ids) ==
  /\ ids \in ExpansionLists
  /\ PluginCall(ApiRequestRender(ApiSetTreeExpansion(Cur, ids)))

\* updateTreeExpansion and requestRender(), as toggleRow of the tree plugin
\* calls them for a row whose children are loaded
ToggleRowCall(id) ==
  /\ id \in ToggledIds
  /\ PluginCall(ApiRequestRender(ApiToggleTreeExpansion(Cur, id)))

TreeStep ==
  \/ \E ids \in ExpansionLists : SetTreeExpansionCall(ids)
  \/ \E id \in ToggledIds : ToggleRowCall(id)

\* a call of setSnapshot
SetSnapshotCall(snapshot) ==
  /\ snapshot \in PluginSnapshots
  /\ PluginCall(ApiSetSnapshot(Cur, snapshot))

\* two handler functions of a plugin that subscribes outside its factory
OutsideHandlers ==
  {Handler([cyc |-> 0, id |-> 0], "first"), Handler([cyc |-> 0, id |-> 0], "second")}

\* the registrations of handler h in a list of handlers
Count(list, h) == Cardinality({i \in DOMAIN list : list[i] = h})

\* on("data", handler), the unsubscribe function it returns is kept
OnCall(handler) ==
  /\ handler \in OutsideHandlers
  /\ Len(events["data"]) < MaxSubs
  /\ PluginCall(ApiOn(Cur, "data", handler))

\* A call of an unsubscribe function that on("data", handler) has returned.
\* (Every call of one empties the event of the handler, so while the handler
\* is subscribed there is such a function that has not been called; calls
\* made when the handler is not subscribed change nothing and are left out.)
UnsubscribeCall(handler) ==
  /\ Count(events["data"], handler) > 0
  /\ PluginCall(Unsubscribe(Cur, "data", handler))

SubscribeStep ==
  \/ \E handler \in OutsideHandlers : OnCall(handler)
  \/ \E handler \in OutsideHandlers : UnsubscribeCall(handler)

\* what plugins pass to setStatus, setError, setRows and upsertRows; anything
\* that is not an array reaches setRows and upsertRows as None
MutatorStatuses == {"loading", "ready", "error"}
MutatorMessages == {"", "boom"}
MutatorRows == {None, Some(Rows1), Some(Rows2)}

SetStatusCall(status) ==
  /\ status \in MutatorStatuses
  /\ PluginCall(ApiSetStatus(Cur, status))

SetErrorCall(message) ==
  /\ message \in MutatorMessages
  /\ PluginCall(ApiSetError(Cur, message))

SetRowsCall(rows) ==
  /\ rows \in MutatorRows
  /\ PluginCall(ApiSetRows(Cur, rows))

UpsertRowsCall(rows) ==
  /\ rows \in MutatorRows
  /\ PluginCall(ApiUpsertRows(Cur, rows))

MutatorStep ==
  \/ \E status \in MutatorStatuses : SetStatusCall(status)
  \/ \E message \in MutatorMessages : SetErrorCall(message)
  \/ \E snapshot \in PluginSnapshots : SetSnapshotCall(snapshot)
  \/ \E rows \in MutatorRows : SetRowsCall(rows)
  \/ \E rows \in MutatorRows : UpsertRowsCall(rows)

\* a call of addStyles with a non-empty cssText
AddStylesCall(id, priority) ==
  /\ Len(pluginStyleSheets) < MaxSheets
  /\ PluginCall(ApiAddStyles(Cur, id, priority, [cyc |-> 0, id |-> 0]))

\* a call of a disposer that such an addStyles call has returned
RemoveStylesCall(id) ==
  /\ \E i \in DOMAIN pluginStyleSheets :
       pluginStyleSheets[i].id = id /\ pluginStyleSheets[i].owner.cyc = 0
  /\ PluginCall(RemoveStyles(Cur, id))

\* setThemeCss, called by the host page
SetThemeCss(cssText) ==
  /\ cssText # userCss
  /\ Put(Render([Cur EXCEPT !.userCss = cssText]))
  /\ UNCHANGED <<pool, stream, dom, isConnected, initDone, reinitQueued, cycles, initLog,
                 mq, ticks, msgs>>

StyleStep ==
  \/ \E id \in StyleIds, priority \in StylePriorities : AddStylesCall(id, priority)
  \/ \E id \in StyleIds : RemoveStylesCall(id)
  \/ \E cssText \in ThemeCss : SetThemeCss(cssText)

RenderStep ==
  \/ \E scrollTop \in ScrollTops, scrollLeft \in ScrollLefts : Scroll(scrollTop, scrollLeft)
  \/ ScrollAssigned
  \/ \E n \in 1..MaxCalls : RequestRender(n)
  \/ \E snapshot \in PluginSnapshots : SetSnapshotCall(snapshot)

\* ------------------------------------------------------------------ Next
HostStep ==
  \/ \E d \in pool : Connect(d)
  \/ Disconnect
  \/ \E d \in pool : AttributeChange(d)
  \/ ReinitRun

CycleStep ==
  \/ \E c \in 1..Len(cycles) : AfterResolve(c)
  \/ \E c \in 1..Len(cycles) : StartPlugins(c)
  \/ \E c \in 1..Len(cycles) : AfterFactory(c)
  \/ \E c \in 1..Len(cycles) : AfterStart(c)

ImportStep == \E c \in 1..Len(cycles), o \in LoadOutcomes : LoadStep(c, o)

PollStep ==
  \/ \E p \in 1..Len(providers), rid \in 1..(MaxTicks + 1), o \in FetchOutcomes :
       FetchSettle(p, rid, o)
  \/ \E p \in 1..Len(providers), rid \in 1..(MaxTicks + 1) : FetchAborted(p, rid)
  \/ \E p \in 1..Len(providers) : PollTick(p)

StreamStep ==
  \/ \E p \in 1..Len(providers), m \in stream : SseMessage(p, m)
  \/ \E p \in 1..Len(providers) : SseError(p)

UserStep ==
  \/ \E o \in DOMAIN flt, term \in Terms : FilterInput(o, term)
  \/ \E o \in DOMAIN srt, columnKey \in {"a"}, multi \in BOOLEAN :
       HeaderClick(o, columnKey, multi)
  \/ \E o \in DOMAIN pag : NextClick(o)
  \/ \E o \in DOMAIN pag : PrevClick(o)

PageSizeStep ==
  \E o \in DOMAIN pag : \E nextSize \in pag[o].pageSizes : PageSizeChange(o, nextSize)

Next == HostStep \/ CycleStep \/ ImportStep \/ PollStep \/ StreamStep

\* the element with static data sources only: no provider event can occur
NextStatic == HostStep \/ CycleStep \/ ImportStep

\* the element with no plugin reference: nothing is imported
NextProviders == HostStep \/ CycleStep \/ PollStep \/ StreamStep

\* the element with a stream data source and no plugin reference
NextStream == HostStep \/ CycleStep \/ StreamStep

Spec == Init /\ [][Next]_vars

\* data sources that cannot be started
SpecSources == InitWith(SourcePool, {}) /\ [][NextStatic]_vars

\* explicit resolution modes, static data
SpecResolve == InitDom(ModePool, {}) /\ [][NextStatic]_vars

\* a stream of snapshots and row updates
SpecStream == InitWith({CfgSsePlain}, UpsertStream) /\ [][NextStream]_vars

\* every provider kind, one stream message, no plugin reference
InitProviders == InitWith(ProviderPool, {Msg("object", "upsertRows", None, Some(Rows1))})
SpecProviders == InitProviders /\ [][NextProviders]_vars

InitStatic == InitWith(StaticPool, {})
SpecStatic == InitStatic /\ [][NextStatic]_vars

\* static data, plugin references of varied priority, id and nature
InitOrder == InitWith(OrderPool, {})
SpecOrder == InitOrder /\ [][NextStatic]_vars

\* the filter, sort and pagination plugins over a stream, with a user; the
\* element is inserted once and stays in the document
NextTypical ==
  \/ \E d \in pool : Connect(d)
  \/ CycleStep
  \/ ImportStep
  \/ StreamStep
  \/ UserStep
SpecTypical == InitWith({CfgTypical}, TypicalStream) /\ [][NextTypical]_vars

\* renders: the element is inserted once, streams deliver snapshots, the
\* user scrolls, a plugin asks for renders
NextRender ==
  \/ \E d \in pool : Connect(d)
  \/ CycleStep
  \/ ImportStep
  \/ StreamStep
  \/ RenderStep
SpecRender == InitWith(RenderPool, RenderStream) /\ [][NextRender]_vars

\* a row tree with hierarchy mode on and off, calls that change the expansion set
NextTree ==
  \/ \E d \in pool : Connect(d)
  \/ CycleStep
  \/ TreeStep
SpecTree == InitWith(TreePool, {}) /\ [][NextTree]_vars

\* static data behind the pagination plugin, plugins that call the five
\* mutators of the capability API
NextMutators ==
  \/ \E d \in pool : Connect(d)
  \/ CycleStep
  \/ ImportStep
  \/ MutatorStep
SpecMutators == InitWith({CfgStaticPaged}, {}) /\ [][NextMutators]_vars

\* the host removes the element only when no initialization is under way,
\* and inserts it again
DisconnectWhenSettled ==
  /\ \A c \in 1..Len(cycles) : cycles[c].pc = "done"
  /\ Disconnect
NextReconnect ==
  \/ \E d \in pool : Connect(d)
  \/ DisconnectWhenSettled
  \/ CycleStep
  \/ ImportStep
SpecReconnect == InitWith(StaticPool \cup DisposePool, {}) /\ [][NextReconnect]_vars

\* static data, a plugin that subscribes and unsubscribes handlers
NextEvents ==
  \/ \E d \in pool : Connect(d)
  \/ CycleStep
  \/ ImportStep
  \/ SubscribeStep
SpecEvents == InitWith({CfgStaticPaged, CfgStaticPlain, CfgCounting, CfgTree}, {}) /\ [][NextEvents]_vars

\* the pagination plugin with several page sizes, behind the filter and sort
\* plugins on a stream and alone in manual mode on static data
NextPaging ==
  \/ \E d \in pool : Connect(d)
  \/ CycleStep
  \/ ImportStep
  \/ StreamStep
  \/ UserStep
  \/ PageSizeStep
SpecPaging == InitWith(PagingPool, TypicalStream) /\ [][NextPaging]_vars

\* a virtualized grid whose stream grows and shrinks the row list
NextScroll ==
  \/ \E d \in pool : Connect(d)
  \/ CycleStep
  \/ StreamStep
  \/ RenderStep
SpecScroll == InitWith({CfgVirtual}, ScrollStream) /\ [][NextScroll]_vars

\* styles: the host page toggles data-unstyled and sets its CSS, plugins add
\* and remove fragments
NextStyles ==
  \/ \E d \in pool : Connect(d)
  \/ \E d \in pool : AttributeChange(d)
  \/ ReinitRun
  \/ CycleStep
  \/ StyleStep
SpecStyles == InitDom(StylePool, {}) /\ [][NextStyles]_vars

\* static data, plugins whose factory or handler fails
SpecFaulty == InitWith(FaultyPool, {}) /\ [][NextStatic]_vars

\* static data, plugins that count the calls of their disposers
SpecDispose == InitWith(DisposePool, {}) /\ [][NextStatic]_vars

\* ======================================================================
\*                              PROPERTIES
\* ======================================================================
Range(s) == {s[i] : i \in DOMAIN s}

\* a new initialization cycle begins in this step (connect or reinitialize)
CycleBegins == Len(cycles') > Len(cycles)

\* ---------------------------------------------------------------- C1
StatusStepAllowed ==
  \/ model.status = "init" /\ model'.status = "loading"
  \/ model.status = "loading" /\ model'.status \in {"ready", "error"}
  \/ model.status \in {"ready", "error"} /\ model'.status = "loading" /\ CycleBegins

\* C1: GridModel.status changes only along init->loading, loading->ready and
\* loading->error, and leaves ready or error only towards loading in a step
\* that begins a new initialization cycle; never error->ready, never
\* ready->loading without a reinitialization.
C1_StatusTransitions ==
  [][model'.status # model.status => StatusStepAllowed]_vars

\* C1, the case met: a stream provider has reported an error and its stream
\* is still open, so a later message can arrive in status error.
C1_ErrorWithOpenStream ==
  /\ model.status = "error"
  /\ activeDataProvider # 0
  /\ providers[activeDataProvider].es
  /\ msgs > 0

\* ---------------------------------------------------------------- C2
\* cycle c is stale: a newer initialization cycle has begun
Stale(c) == c < Len(cycles)

\* what a cycle applies: GridModel, the plugin registries, the plugins it
\* initializes and the providers it starts
Applied ==
  <<config, model, cellRenderers, headerRenderers, toolbarItems, footerItems,
    events, pluginDisposers, pluginStyleSheets, dataProviderFactories, plugins,
    activeDataProvider, providers, initLog>>

\* C2: a step in which a stale initialization cycle resumes applies nothing:
\* it initializes no plugin, starts no provider and leaves GridModel and the
\* plugin registries as they are.
C2_StaleAppliesNothing ==
  [][\A c \in 1..Len(cycles) :
       (Stale(c) /\ cycles'[c] # cycles[c]) => UNCHANGED Applied]_vars

\* C2, the case met: a stale cycle is still suspended at one of its awaits
C2_StaleSuspended ==
  \E c \in 1..Len(cycles) : Stale(c) /\ cycles[c].pc # "done"

\* ---------------------------------------------------------------- C3
\* C3: every provider instance but the newest has had stop() invoked, so
\* start() is only ever invoked once all earlier instances were stopped; and
\* a started instance that was not stopped is the one the grid refers to,
\* so at most one provider is active.
C3_StopBeforeStart ==
  /\ activeDataProvider \in {0, Len(providers)}
  /\ \A p \in 1..Len(providers) :
       /\ providers[p].started
       /\ p < Len(providers) => providers[p].stopInvoked
       /\ ~providers[p].stopInvoked => activeDataProvider = p

\* C3, the case met: a second provider was started while the first one, of
\* another kind, had been started before it
C3_SecondProviderStarted ==
  /\ Len(providers) >= 2
  /\ activeDataProvider = Len(providers)
  /\ providers[1].kind # providers[Len(providers)].kind
  /\ providers[1].stopInvoked

\* ---------------------------------------------------------------- C4
\* C4: a poll provider on which stop() was invoked holds no poll timer and
\* has no request in flight but aborted ones.
C4_StoppedPollIsQuiet ==
  \A p \in 1..Len(providers) :
    (providers[p].kind = "fetch" /\ providers[p].stopInvoked) =>
      /\ ~providers[p].pollTimer
      /\ \A r \in providers[p].reqs : r.aborted

\* C4, the case met: stop() came while the first request was in flight
C4_StoppedInFlight ==
  \E p \in 1..Len(providers) :
    /\ providers[p].kind = "fetch"
    /\ providers[p].stopInvoked
    /\ providers[p].first # 0
    /\ providers[p].ds.pollMs > 0

\* ---------------------------------------------------------------- C5
\* rows of the snapshot embedded in the static data source of #config
SnapshotRowCount ==
  Len(OrElse(OrElse(config.data.snapshot, EmptySnapshot).rows, <<>>))

\* the pagination plugins in automatic mode subscribed to "data"
AutoPagers ==
  SelectSeq(events["data"],
            LAMBDA h : h.fn = "onDataSnapshot" /\ ~pag[OwnerOf(h)].manualMode)

\* the first page of the pagination plugin that handles "data" last
FirstPageCount ==
  Min(SnapshotRowCount, pag[OwnerOf(AutoPagers[Len(AutoPagers)])].currentPageSize)

ExpectedRowCount ==
  IF AutoPagers = <<>> THEN SnapshotRowCount ELSE FirstPageCount

\* a static provider is created and started in this step
StaticStartStep ==
  /\ Len(providers') = Len(providers) + 1
  /\ providers'[Len(providers')].kind = "static"

\* the newest cycle has completed for a static spec, nothing else is pending
StaticCompleted ==
  /\ cycles # <<>>
  /\ \A c \in 1..Len(cycles) : cycles[c].pc = "done"
  /\ cycles[Len(cycles)].cfg.valid
  /\ cycles[Len(cycles)].cfg.data.kind = "static"
  /\ isConnected
  /\ mq = <<>>

\* C5 as stated: once initialization has completed for a static spec, status
\* is ready and GridModel holds as many rows as the embedded snapshot.
C5_RowCountIsSnapshotCount ==
  StaticCompleted => (model.status = "ready" /\ Len(model.rows) = SnapshotRowCount)

\* C5 amended: starting the static provider makes status ready, and once
\* initialization has completed status is ready; GridModel then holds as many
\* rows as the embedded snapshot unless a pagination plugin in automatic mode
\* handles "data", in which case it holds the first page (the smaller of the
\* page size and the snapshot's row count).
C5_RowCountAfterStaticStart ==
  /\ [](StaticCompleted => (model.status = "ready" /\ Len(model.rows) = ExpectedRowCount))
  /\ [][StaticStartStep =>
          (model'.status = "ready" /\ Len(model'.rows) = ExpectedRowCount')]_vars

\* C5, the case met: initialization completed with the pagination plugin
\* installed, and the page is shorter than the snapshot
C5_PagedCompleted ==
  /\ StaticCompleted
  /\ AutoPagers # <<>>
  /\ Len(model.rows) < SnapshotRowCount

\* ---------------------------------------------------------------- C6
\* the cycles whose plugins hold an entry in a registry
RegistryOwners ==
  {r.fn.cyc : r \in cellRenderers \cup headerRenderers}
  \cup {i.cyc : i \in Range(toolbarItems) \cup Range(footerItems)}
  \cup {h.cyc : h \in UNION {Range(events[n]) : n \in EventNames}}

\* the newest cycle is a reinitialization and it has completed
ReinitCompleted ==
  /\ cycles # <<>>
  /\ cycles[Len(cycles)].force
  /\ cycles[Len(cycles)].pc = "done"

\* C6: after a reinitialization has completed, the renderer, toolbar, footer
\* and event registries hold only what the plugins of the new cycle
\* registered.
C6_RegistriesOfNewCycleOnly ==
  ReinitCompleted => RegistryOwners \subseteq {Len(cycles)}

\* C6, the case met: a reinitialization has completed while an earlier cycle
\* had loaded a plugin
C6_ReinitAfterPlugins ==
  /\ ReinitCompleted
  /\ \E c \in 1..(Len(cycles) - 1) : cycles[c].loaded # <<>>

\* ---------------------------------------------------------------- C7
\* C7: a stream message of an unrecognized shape (unknown type, or a known
\* type without its snapshot/rows field) leaves GridModel unchanged.
C7_UnrecognizedIgnored ==
  [][(\E p \in 1..Len(providers), m \in Unrecognized : SseMessage(p, m))
       => model' = model]_vars

\* C7, the case met: an open stream with status still loading, so that an
\* unrecognized message can arrive
C7_StreamOpenLoading ==
  /\ activeDataProvider # 0
  /\ providers[activeDataProvider].es
  /\ model.status = "loading"
  /\ msgs < MaxMsgs
  /\ mq = <<>>

\* ---------------------------------------------------------------- C8
\* (priority ascending, then declaration order, then id)
SortKeyLeq(a, b) ==
  \/ a.priority < b.priority
  \/ /\ a.priority = b.priority
     /\ \/ OrderOf(a) < OrderOf(b)
        \/ OrderOf(a) = OrderOf(b) /\ a.id <= b.id

IsPrefix(s, u) == Len(s) <= Len(u) /\ s = SubSeq(u, 1, Len(s))

\* the built-in plugin together with the loaded external plugins of cycle c
Candidates(c) == Range(<<BuiltinPlugin>> \o cycles[c].loaded)

C9_BuiltinFirst ==
  \A c \in 1..Len(cycles) : initLog[c] # <<>> => initLog[c][1] = BuiltinPlugin

\* C9, the case met: a cycle has initialized the built-in plugin and an
\* external plugin
C9_ExternalInitialized ==
  \E c \in 1..Len(cycles) :
    /\ BuiltinPlugin \in Range(initLog[c])
    /\ Len(initLog[c]) >= 2

\* --------------------------------------------------------------- C10
NatureRank(n) ==
  CASE n = "presentation" -> 1
    [] n = "content-supplier" -> 2
    [] OTHER -> 3

\* C10: in every cycle plugins are initialized in nature order: presentation
\* before content-supplier before grid-functionality.
C10_NatureOrder ==
  \A c \in 1..Len(cycles) :
    \A i, j \in 1..Len(initLog[c]) :
      i < j => NatureRank(initLog[c][i].nature) <= NatureRank(initLog[c][j].nature)

\* C10, the case met: a cycle has initialized plugins of three natures
C10_ThreeNatures ==
  \E c \in 1..Len(cycles) :
    {NatureRank(x.nature) : x \in Range(initLog[c])} = {1, 2, 3}

\* ----------------------------------------------------------------- C11
\* the cycle the element began last
Latest(c) == c = Len(cycles)

PluginsDone(c) == cycles[c].pc \in {"start", "done"}

\* C11: a plugin whose module fails to load or has no default factory, or
\* whose factory throws or rejects, stops nothing: once the latest cycle has
\* left the plugin loop, every plugin of its sorted list was initialized and
\* its provider was started; and neither a step that imports a module nor a
\* step that stays in the plugin loop changes the status.
C11_FailureIsIsolated ==
  /\ [](\A c \in 1..Len(cycles) :
          (Latest(c) /\ cycles[c].cfg.valid /\ PluginsDone(c)) =>
            /\ initLog[c] = SortPlugins(<<BuiltinPlugin>> \o cycles[c].loaded)
            /\ cycles[c].prov # 0
            /\ providers[cycles[c].prov].started
            /\ model.status # "error")
  /\ [][\A c \in 1..Len(cycles) :
          ((cycles'[c].li # cycles[c].li \/ cycles'[c].pc = "plugin")
             /\ cycles'[c] # cycles[c]) =>
            model'.status = model.status]_vars

\* A cycle has called a factory that threw and one that it called after it,
\* and has started its provider.
C11_InitializedPastFailure ==
  \E c \in 1..Len(cycles) :
    /\ Latest(c) /\ PluginsDone(c)
    /\ Len(initLog[c]) = 3
    /\ Throws(initLog[c][2])
    /\ initLog[c][3].kind = "pagination"
    /\ cycles[c].prov # 0
    /\ model.status = "ready"

\* ----------------------------------------------------------------- C12
\* C12: #emit calls every handler subscribed to the event when the emit
\* starts, in subscription order, also past a handler that throws, and the
\* exception does not reach the caller: the static provider that emits "data"
\* completes its start with status ready, and the pagination handler
\* subscribed after a throwing handler has narrowed the rows to its page.
C12_EveryHandlerInvoked ==
  /\ [](\A name \in EventNames : Invoked(events[name], 1) = events[name])
  /\ [][StaticStartStep =>
          /\ providers'[Len(providers')].startDone
          /\ model'.status = "ready"
          /\ Len(model'.rows) = ExpectedRowCount']_vars

\* A "data" event was delivered to a throwing handler and to the pagination
\* handler subscribed after it.
C12_HandlerAfterThrow ==
  /\ Len(events["data"]) = 2
  /\ HandlerThrows(events["data"][1])
  /\ events["data"][2].fn = "onDataSnapshot"
  /\ activeDataProvider # 0
  /\ providers[activeDataProvider].startDone
  /\ Len(model.rows) = 2
  /\ SnapshotRowCount = 3

\* ----------------------------------------------------------------- C13
Ids(rows) == {rows[i].id : i \in DOMAIN rows}

DistinctIds(rows) == \A i, j \in DOMAIN rows : rows[i].id = rows[j].id => i = j

\* the row an update holds last for an id it names
LastOf(upd, id) ==
  upd[CHOOSE i \in DOMAIN upd :
        upd[i].id = id /\ \A j \in DOMAIN upd : j > i => upd[j].id # id]

\* the ids an update brings that old does not hold, in arrival order
Arrivals(old, upd) ==
  LET first == SelectSeq([i \in DOMAIN upd |-> i],
                         LAMBDA i : /\ upd[i].id \notin Ids(old)
                                    /\ \A j \in 1..(i - 1) : upd[j].id # upd[i].id)
  IN [k \in DOMAIN first |-> upd[first[k]].id]

\* new is old merged with upd
Merged(old, upd, new) ==
  LET arrivals == Arrivals(old, upd)
  IN /\ Len(new) = Len(old) + Len(arrivals)
     /\ \A i \in DOMAIN old :
          new[i] = IF old[i].id \in Ids(upd) THEN LastOf(upd, old[i].id) ELSE old[i]
     /\ \A k \in DOMAIN arrivals :
          new[Len(old) + k] = LastOf(upd, arrivals[k])

UpdateRows == {Row(i, v) : i \in {2, 4}, v \in {7, 8}}

Updates == UNION {[1..n -> UpdateRows] : n \in 0..MaxUpdate}

\* C13: whatever rows with distinct ids GridModel holds, upsertRows through
\* the capability API and through a stream message leaves the rows the
\* update does not name unchanged and in place, puts the last incoming row
\* of an id in the place of the row that had it, and appends the rows of new
\* ids in arrival order.
C13_UpsertMerges ==
  DistinctIds(model.rows) =>
    \A upd \in Updates :
      /\ Merged(model.rows, upd, ApiUpsertRows(Cur, Some(upd)).model.rows)
      /\ Merged(model.rows, upd,
                ApplySseMessage(model, Msg("object", "upsertRows", None, Some(upd))).rows)

\* The stream has replaced a row in place and appended one with a new id.
C13_ReplacedAndAppended ==
  model.rows = <<Row(1, 2), Row(2, 4), Row(4, 3)>>

\* ----------------------------------------------------------------- C14
\* C14: the step in which a poll request comes back with the non-OK status
\* 500 sets status error and the message 'Fetch failed: HTTP 500' and leaves
\* the rows and the columns of GridModel as they were.
C14_HttpErrorKeepsRows ==
  [][\A p \in 1..Len(providers), rid \in 1..(MaxTicks + 1) :
       FetchSettle(p, rid, "http500") =>
         /\ model'.status = "error"
         /\ model'.error = "Fetch failed: HTTP 500"
         /\ model'.rows = model.rows
         /\ model'.columns = model.columns]_vars

\* A poll request has failed with HTTP 500 while GridModel held the rows of
\* an earlier response.
C14_FailedWithRowsHeld ==
  /\ model.status = "error"
  /\ model.error = "Fetch failed: HTTP 500"
  /\ model.rows = Rows2
  /\ ticks > 0

\* ----------------------------------------------------------------- C15
\* provider p polls: it has a positive interval and stop() was not called
Polling(p) == providers[p].ds.pollMs > 0 /\ ~providers[p].stopInvoked

\* C15: a failed request does not end polling.  A polling provider whose
\* start has returned holds its interval timer, and holds it after every
\* step in which one of its requests fails, the first one included, so the
\* next tick issues a request; and a step in which a response arrives
\* without error sets status ready and puts the snapshot of the response
\* into GridModel, whatever the status was.
C15_FailureKeepsPolling ==
  /\ [](\A p \in 1..Len(providers) :
          (Polling(p) /\ providers[p].startDone) => providers[p].pollTimer)
  /\ [][\A p \in 1..Len(providers), rid \in 1..(MaxTicks + 1) :
          /\ (FetchSettle(p, rid, "http500") /\ Polling(p)) =>
                providers'[p].pollTimer
          /\ FetchSettle(p, rid, "ok") =>
                (model'.status = "ready" /\ model'.rows = FetchedSnapshotArg.rows[1])]_vars

\* The first request of a polling provider has failed and its timer runs.
C15_TimerAfterFailedFirst ==
  /\ activeDataProvider # 0
  /\ providers[activeDataProvider].pollTimer
  /\ providers[activeDataProvider].nreq = 1
  /\ model.status = "error"
  /\ model.error = "Fetch failed: HTTP 500"

\* ----------------------------------------------------------------- C16
\* provider instances on which start() was not called yet
Unstarted ==
  {NewProvider("static", StaticDS(Rows1)), NewProvider("fetch", FetchDS(1000)),
   NewProvider("sse", SseDS)}

\* nothing of the provider is left running
Quiet(pr) ==
  /\ ~pr.pollTimer
  /\ ~pr.es
  /\ pr.abort = 0
  /\ \A r \in pr.reqs : r.aborted

\* C16: stop() of the static, poll and stream providers can be called any
\* number of times, before start, while running and after an earlier stop:
\* after the first call the provider holds no timer, no request that is not
\* aborted and no open stream, and every further call changes nothing; the
\* same holds for #stopDataProvider of the grid.
C16_StopIsIdempotent ==
  /\ \A pr \in Range(providers) \cup Unstarted :
       LET once == ProviderStop(pr)
       IN /\ Quiet(once)
          /\ ProviderStop(once) = once
          /\ ProviderStop(ProviderStop(once)) = once
  /\ LET s1 == StopDataProvider(Cur)
     IN /\ s1.activeDataProvider = 0
        /\ StopDataProvider(s1) = s1

\* A poll provider was stopped while its timer ran and a request issued by a
\* tick was in flight.
C16_StoppedWhileRunning ==
  \E p \in 1..Len(providers) :
    /\ providers[p].kind = "fetch"
    /\ providers[p].stopInvoked
    /\ providers[p].startDone
    /\ providers[p].nreq > 1
    /\ Quiet(providers[p])
    /\ providers[p].reqs # {}

\* ----------------------------------------------------------------- C17
\* the one source an explicit mode names
SourceOf(d) ==
  CASE d.mode = "json" -> d.internal
    [] d.mode = "table" -> d.table
    [] d.mode = "factory" -> d.factory

\* C17: with an explicit mode a cycle begins with the spec of the one source
\* the mode names, or with no spec when that source yields nothing; no other
\* source decides the result.
C17_ExplicitModeOneSource ==
  [][(CycleBegins /\ dom'.mode \in {"json", "table", "factory"}) =>
       cycles'[Len(cycles')].cfg = OrElse(SourceOf(dom'), NullCfg)]_vars

\* C17, the case met: mode json, no inline block, and the cycle has come up
\* with the spec of the block referenced by data-config-id.
C17_SecondSourceUsed ==
  /\ dom.mode = "json"
  /\ dom.internal = None
  /\ cycles # <<>>
  /\ cycles[Len(cycles)].pc = "done"
  /\ config = dom.external[1]
  /\ model.status = "ready"

\* ----------------------------------------------------------------- C18
\* the latest cycle found no spec and has ended
Unconfigured ==
  /\ cycles # <<>>
  /\ ~cycles[Len(cycles)].cfg.valid
  /\ cycles[Len(cycles)].pc = "done"

\* a cycle without a spec ends with status error and a message, calls no
\* plugin factory and starts no provider
C18_EndsInError ==
  /\ [](\A c \in 1..Len(cycles) :
          ~cycles[c].cfg.valid => (initLog[c] = <<>> /\ cycles[c].prov = 0))
  /\ [][\A c \in 1..Len(cycles) :
          (~cycles[c].cfg.valid /\ cycles[c].pc # "done" /\ cycles'[c].pc = "done") =>
            (model'.status = "error" /\ model'.error # "")]_vars

\* status stays error until a new cycle begins
C18_StaysInError ==
  [][(Unconfigured /\ model.status = "error" /\ ~CycleBegins) =>
       model'.status = "error"]_vars

\* C18: if no configuration source yields a spec, the cycle ends with status
\* error and a non-empty message, without calling a plugin factory or
\* starting a provider, and the status stays error until the element is
\* initialized again.
C18_ConfigurationErrorIsTerminal == C18_EndsInError /\ C18_StaysInError

\* C18, the case met: the latest cycle found no spec and has ended in error
\* while an earlier cycle is still suspended.
C18_ErrorWithCyclePending ==
  /\ Unconfigured
  /\ model.status = "error"
  /\ model.error = "Missing or invalid grid config."
  /\ \E c \in 1..Len(cycles) : cycles[c].pc \notin {"resolve", "done"}

\* ----------------------------------------------------------------- C19
\* cycle c runs #startDataProvider in this step
StartStep(c) == cycles[c].pc # "start" /\ cycles'[c].pc = "start"

\* the message #startDataProvider has to report for the spec held, if any
StartProblem ==
  IF ~config'.valid \/ ~config'.data.present THEN Some("No data source configured.")
  ELSE IF config'.data.kind = "" THEN Some("Data source kind missing.")
  ELSE IF config'.data.kind \notin dataProviderFactories'
  THEN Some("No data provider registered for kind: " \o config'.data.kind)
  ELSE None

\* the error is reported and no provider instance is created
C19_StartErrorReported ==
  [][\A c \in 1..Len(cycles) :
       StartStep(c) =>
         /\ StartProblem # None =>
              /\ model'.status = "error"
              /\ model'.error = StartProblem[1]
              /\ providers' = providers
         /\ (StartProblem = None /\ StartThrows(config'.data.kind)) =>
              /\ model'.status = "error"
              /\ model'.error = "Data provider failed: boom"]_vars

\* no provider is active after the error
C19_NoneActiveAfterwards ==
  [][\A c \in 1..Len(cycles) :
       (StartStep(c) /\ StartProblem # None) => activeDataProvider' = 0]_vars

\* C19: a spec without data source, with an empty kind or with a kind that
\* has no registered factory makes #startDataProvider set status error and
\* the message naming the problem, create no provider instance and leave
\* none active; a provider whose start() throws makes it set status error
\* and 'Data provider failed: <reason>'.
C19_StartFailures == C19_StartErrorReported /\ C19_NoneActiveAfterwards

\* C19, the case met: the latest cycle has reported a spec without a usable
\* data source while a provider started by an earlier cycle is active.
C19_ErrorWithActiveProvider ==
  /\ cycles # <<>>
  /\ cycles[Len(cycles)].pc = "done"
  /\ cycles[Len(cycles)].cfg.valid
  /\ cycles[Len(cycles)].prov = 0
  /\ model.status = "error"
  /\ activeDataProvider # 0

\* ----------------------------------------------------------------- C20
\* a data provider factory is registered in this step
Registers ==
  /\ dataProviderFactories \subseteq dataProviderFactories'
  /\ dataProviderFactories' # dataProviderFactories

\* C20: while a started provider is active, registerDataProvider, for a
\* kind already registered, for the kind of the active provider or for a new
\* one, changes neither the active instance, nor any provider, nor GridModel;
\* and no step in which a factory is registered replaces, stops or restarts
\* the active provider or changes GridModel.
C20_LateRegistrationIsInert ==
  /\ [](activeDataProvider # 0 =>
          \A kind \in {"", "static", "fetch", "sse", "broken", "late"} :
            LET s1 == ApiRegisterDataProvider(Cur, kind)
            IN /\ s1.activeDataProvider = activeDataProvider
               /\ s1.providers = providers
               /\ s1.model = model)
  /\ [][(activeDataProvider # 0 /\ Registers) =>
          /\ activeDataProvider' = activeDataProvider
          /\ providers' = providers
          /\ model' = model]_vars

\* A plugin has registered a provider kind while the provider started
\* earlier is active.
C20_RegisteredWhileActive ==
  /\ activeDataProvider # 0
  /\ providers[activeDataProvider].startDone
  /\ providers[activeDataProvider].kind = "static"
  /\ "broken" \in dataProviderFactories
  /\ cycles[Len(cycles)].pc = "plugin"


\* ---------------------------------------------------------------- C21
\* the filter, sort and pagination plugins of one cycle handle "data", in
\* that order, and nothing else does
PipelineInstalled ==
  \E c \in 1..Len(cycles) :
    events["data"] = <<Handler([cyc |-> c, id |-> 1], "refreshBase"),
                       Handler([cyc |-> c, id |-> 3], "sortOnDataSnapshot"),
                       Handler([cyc |-> c, id |-> 4], "onDataSnapshot")>>

\* rows filtered by the term, sorted by the sort state, cut to the page
Pipeline(rows, term, sortState, pg) ==
  LET needle == Trim(term)
      filtered == IF needle = <<>> THEN rows
                  ELSE SelectSeq(rows, LAMBDA row : Includes(NormalizeRow(row), needle))
      sorted == IF sortState = <<>> THEN filtered ELSE SortRows(filtered, sortState)
  IN Slice(sorted, pg.currentPage * pg.currentPageSize,
           (pg.currentPage + 1) * pg.currentPageSize)

\* C21: with the filter, sort and pagination plugins installed, after every
\* "data" event of the provider GridModel.rows is the provider's rows
\* filtered by the current term, sorted by the current sort state and cut to
\* the current page.
C21_DataEventRunsPipeline ==
  [][\A p \in 1..Len(providers), m \in stream :
       (SseMessage(p, m) /\ PipelineInstalled)
         => model'.rows =
              Pipeline(ApplySseMessage(model, m).rows,
                       flt'[OwnerOf(events["data"][1])].value,
                       srt'[OwnerOf(events["data"][2])].sortState,
                       pag'[OwnerOf(events["data"][3])])]_vars

\* a stream message has been handled by the three plugins, and a filter term
\* and a sort state are held
C21_DataWithTermAndSort ==
  /\ PipelineInstalled
  /\ msgs > 0
  /\ model.status = "ready"
  /\ Trim(flt[OwnerOf(events["data"][1])].value) # <<>>
  /\ srt[OwnerOf(events["data"][2])].sortState # <<>>

\* ----------------------------------------------------------------- C22
\* the render that left the tree in the shadow root, if any
Rendered == view # <<>>

\* C22: in every render that builds a table, with no explicit
\* ui.virtualization.enabled the table is virtualized exactly when the row
\* count exceeds the row threshold (default 200) or the column count exceeds
\* the column threshold (default 16); with an explicit setting the table is
\* virtualized exactly when the setting says so.
C22_VirtualizationActivation ==
  (Rendered /\ Wrap(view[1]).table # None) =>
    LET r == view[1]
        v == r.ui.virtualization
        auto == \/ Len(r.model.rows) > (IF v.rowThreshold = None THEN 200
                                        ELSE v.rowThreshold[1])
                \/ Len(Cols(r)) > (IF v.columnThreshold = None THEN 16
                                   ELSE v.columnThreshold[1])
    IN Wrap(r).table[1].virtualized = (IF v.enabled = None THEN auto ELSE v.enabled[1])

\* a table has been rendered for 200 rows and 16 columns under the default
\* thresholds
C22_AtDefaultThresholds ==
  /\ Rendered
  /\ Wrap(view[1]).table # None
  /\ view[1].ui.virtualization = NoVirtualization
  /\ Len(view[1].model.rows) = 200
  /\ Len(Cols(view[1])) = 16

\* ----------------------------------------------------------------- C23
\* C23: a render that happens while status is "error" leaves a tree with the
\* error banner and with no table (so no header row, body row or spacer row)
\* and no footer.
C23_ErrorRendersBannerOnly ==
  (Rendered /\ view[1].model.status = "error") =>
    /\ Wrap(view[1]).error # None
    /\ Wrap(view[1]).table = None
    /\ Wrap(view[1]).footer = <<>>

\* a render has happened in status "error" while rows were held and a plugin
\* had a footer item registered
C23_ErrorWithRowsAndFooter ==
  /\ Rendered
  /\ view[1].model.status = "error"
  /\ view[1].model.rows # <<>>
  /\ view[1].footerItems # <<>>

\* ----------------------------------------------------------------- C24
\* C24: any number of requestRender() calls in a row leave one tree in the
\* shadow root, the tree that a single call builds, and that tree is built
\* from the model as it is at the last call.
C24_RequestRenderIdempotent ==
  [][\A n \in 1..MaxCalls :
       RequestRender(n) =>
         /\ Len(view') = 1
         /\ Wrap(view'[1]) = Wrap(Render(Cur).view[1])
         /\ view'[1].model = model']_vars

\* rows that only a plugin's setSnapshot call brings are in the tree: they
\* got there by requestRender
C24_PluginRowsRendered ==
  /\ Rendered
  /\ view[1].model.rows = PluginRows
  /\ model.rows = PluginRows
  /\ Wrap(view[1]).table # None

\* ----------------------------------------------------------------- C27
\* C27: a setSnapshot call with no columns keeps the columns the model has,
\* or takes the columns the spec declares when the model has none; rows, sort
\* and filters become what the snapshot supplies and empty when it supplies
\* none; status and error stay as they are.
C27_SetSnapshotFallbacks ==
  [][\A snapshot \in PluginSnapshots :
       SetSnapshotCall(snapshot) =>
         /\ model'.columns =
              (IF snapshot.columns # None THEN snapshot.columns[1]
               ELSE IF model.columns # <<>> THEN model.columns
               ELSE IF config.columns # None THEN config.columns[1]
               ELSE <<>>)
         /\ model'.rows = (IF snapshot.rows # None THEN snapshot.rows[1] ELSE <<>>)
         /\ model'.sort = (IF snapshot.sort # None THEN snapshot.sort[1] ELSE <<>>)
         /\ model'.filters = (IF snapshot.filters # None THEN snapshot.filters[1] ELSE <<>>)
         /\ model'.status = model.status
         /\ model'.error = model.error]_vars

\* a snapshot with no members has been set over columns that a snapshot
\* brought and the spec does not declare
C27_ColumnsKeptOverSpec ==
  /\ model.columns = <<"b">>
  /\ config.columns # Some(<<"b">>)
  /\ model.rows = <<>>
  /\ model.sort = <<>>
  /\ model.filters = <<>>

\* ----------------------------------------------------------------- C29
\* the stored VirtualizationState is a valid window start for the rows and
\* columns that a render reads now
StateInRange ==
  LET cols == IF model.columns # <<>> THEN model.columns
              ELSE IF config.columns # None THEN config.columns[1] ELSE <<>>
      top == IF Len(model.rows) > 1 THEN Len(model.rows) - 1 ELSE 0
      right == IF Len(cols) > 1 THEN Len(cols) - 1 ELSE 0
  IN /\ virtualizationState.rowStart \in 0..top
     /\ virtualizationState.colStart \in 0..right

\* a step that ends with a render: a stream message handled, a scroll
\* event handled, requestRender called
RenderingStep ==
  \/ \E p \in 1..Len(providers), m \in stream : SseMessage(p, m)
  \/ \E scrollTop \in ScrollTops, scrollLeft \in ScrollLefts : Scroll(scrollTop, scrollLeft)
  \/ \E n \in 1..MaxCalls : RequestRender(n)

\* C29: after every render and every handled scroll event the stored
\* VirtualizationState satisfies 0 <= rowStart <= max(0, rows - 1) and
\* 0 <= colStart <= max(0, columns - 1) for the current rows and columns.
C29_StoredStateClamped == [][RenderingStep => StateInRange']_vars

\* the window has been scrolled down to the last of four rows
C29_ScrolledToLastRow ==
  /\ Rendered
  /\ Len(view[1].model.rows) = 4
  /\ virtualizationState.rowStart = 3

\* ----------------------------------------------------------------- C30
RECURSIVE Sum(_)
Sum(numbers) == IF numbers = <<>> THEN 0 ELSE Head(numbers) + Sum(Tail(numbers))

\* the spacer row at position i of a table body, 0 if there is none
SpacerAt(tbody, i) ==
  IF i \in DOMAIN tbody /\ tbody[i].spacer THEN tbody[i].height ELSE 0

\* C30: in every virtualized render the leading spacer, the rendered rows
\* times rowHeight and the trailing spacer add up to the row count times
\* rowHeight; the left padding, the widths of the visible columns and the
\* right padding add up to the width of all columns; with no rows the table
\* body has no spacer row.
C30_SpacersAddUp ==
  (Rendered /\ Wrap(view[1]).table # None /\ Wrap(view[1]).table[1].virtualized) =>
    LET r == view[1]
        v == r.ui.virtualization
        table == Wrap(r).table[1]
        tbody == table.tbody
        rowHeight == IF v.rowHeightPx = None THEN 34
                     ELSE IF v.rowHeightPx[1] > 1 THEN v.rowHeightPx[1] ELSE 1
        rendered == Cardinality({i \in DOMAIN tbody : ~tbody[i].spacer})
        leading == SpacerAt(tbody, 1)
        trailing == IF Len(tbody) > 1 THEN SpacerAt(tbody, Len(tbody)) ELSE 0
    IN /\ leading + rendered * rowHeight + trailing = Len(r.model.rows) * rowHeight
       /\ \A i \in 2..(Len(tbody) - 1) : ~tbody[i].spacer
       /\ table.paddingLeft + Sum(ColumnWidths(table.thead, v)) + table.paddingRight
            = Sum(ColumnWidths(Cols(r), v))
       /\ Len(r.model.rows) = 0 => tbody = <<>>

\* a virtualized render with rows skipped above and below and columns
\* skipped left and right
C30_WindowInTheMiddle ==
  /\ Rendered
  /\ Wrap(view[1]).table # None
  /\ Wrap(view[1]).table[1].virtualized
  /\ Len(Wrap(view[1]).table[1].tbody) = 3
  /\ Wrap(view[1]).table[1].tbody[1].spacer
  /\ Wrap(view[1]).table[1].tbody[3].spacer
  /\ Wrap(view[1]).table[1].paddingLeft > 0
  /\ Wrap(view[1]).table[1].paddingRight > 0

\* ----------------------------------------------------------------- C25
\* position of a kind of sheet in the composed list
KindRank(kind) ==
  CASE kind = "base" -> 1
    [] kind = "theme" -> 2
    [] kind = "plugin" -> 3
    [] kind = "user" -> 4

\* how often a fragment (id, priority) occurs in a list
Occurrences(list, id, priority) ==
  Cardinality({i \in DOMAIN list : list[i].id = id /\ list[i].priority = priority})

\* the list is: base rules, theme slot, plugin fragments by (priority, id),
\* the caller's rules
Ordered(styles) ==
  /\ styles # <<>>
  /\ styles[1].kind = "base"
  /\ \A i, j \in DOMAIN styles :
       i < j =>
         /\ KindRank(styles[i].kind) <= KindRank(styles[j].kind)
         /\ styles[j].kind \in {"base", "user"} => styles[i].kind # styles[j].kind
         /\ (styles[i].kind = "plugin" /\ styles[j].kind = "plugin") =>
              \/ styles[i].priority < styles[j].priority
              \/ /\ styles[i].priority = styles[j].priority
                 /\ StyleRank(styles[i].id) <= StyleRank(styles[j].id)

\* the list holds every fragment of the registry r that has a sheet, and
\* the caller's rules if there are any
Complete(styles, registry, css) ==
  /\ \A x \in Range(registry) :
       Occurrences(SelectSeq(styles, LAMBDA y : y.kind = "plugin"), x.id, x.priority)
         = Occurrences(SelectSeq(registry, LAMBDA y : y.sheet), x.id, x.priority)
  /\ Cardinality({i \in DOMAIN styles : styles[i].kind = "plugin"})
       = Cardinality({i \in DOMAIN registry : registry[i].sheet})
  /\ (css # "") = (\E i \in DOMAIN styles : styles[i].kind = "user" /\ styles[i].id = css)

\* a fragment is registered or removed, or the caller's rules are set
StyleChange ==
  \/ \E id \in StyleIds, priority \in StylePriorities : AddStylesCall(id, priority)
  \/ \E id \in StyleIds : RemoveStylesCall(id)
  \/ \E cssText \in ThemeCss : SetThemeCss(cssText)

C26_UnstyledKeepsCallerRules ==
  (Rendered /\ view[1].unstyled) =>
    /\ \A i \in DOMAIN Wrap(view[1]).styles : Wrap(view[1]).styles[i].kind = "user"
    /\ (view[1].userCss # "") =>
         \E i \in DOMAIN Wrap(view[1]).styles : Wrap(view[1]).styles[i].id = view[1].userCss

\* a render has happened on an unstyled element after setThemeCss was given
\* rules
C26_UnstyledWithCallerRules ==
  /\ Rendered
  /\ view[1].unstyled
  /\ view[1].userCss # ""

\* ----------------------------------------------------------------- C28
\* the step is a teardown: disconnectedCallback or #reinitialize
Teardown == Disconnect \/ ReinitRun

\* the disposers a factory has returned and nobody has called yet
Pending == {o \in DOMAIN disposed : disposed[o] = 0}

\* C28: every disposer a plugin factory has returned is called by the next
\* reinitialization or disconnect, no disposer is ever called twice, and a
\* disposer that throws does not keep the ones after it from being called.
C28_DisposersRunAtTeardown ==
  /\ [](\A o \in DOMAIN disposed : disposed[o] <= 1)
  /\ [][Teardown => \A o \in Pending : disposed'[o] = 1]_vars

\* a teardown has called the throwing disposer and then the one pushed after it
C28_CalledAfterThrowingOne ==
  \E c \in DOMAIN initLog : \E i, j \in DOMAIN initLog[c] :
    /\ i < j
    /\ initLog[c][i].kind = "counting-throws"
    /\ initLog[c][j].kind = "counting"
    /\ [cyc |-> c, id |-> initLog[c][i].id] \in DOMAIN disposed
    /\ [cyc |-> c, id |-> initLog[c][j].id] \in DOMAIN disposed
    /\ disposed[[cyc |-> c, id |-> initLog[c][i].id]] = 1
    /\ disposed[[cyc |-> c, id |-> initLog[c][j].id]] = 1

\* What the two teardown loops do guarantee: every disposer that is in
\* #pluginDisposers when the teardown starts is called exactly once by it,
\* throwing or not, and the list is left empty.
HeldDisposersRun ==
  /\ [](\A o \in DOMAIN disposed : disposed[o] <= 1)
  /\ [][Teardown =>
         /\ pluginDisposers' = <<>>
         /\ \A i \in DOMAIN pluginDisposers :
              pluginDisposers[i].kind \in {"counting", "counting-throws"} =>
                LET o == [cyc |-> pluginDisposers[i].cyc, id |-> pluginDisposers[i].id]
                IN disposed[o] = 0 /\ disposed'[o] = 1]_vars

\* ----------------------------------------------------------------- C31
\* the scroll event that the last render's assignment queued would make the
\* listener render
QueuedWouldRender ==
  /\ scrollQueued
  /\ view # <<>>
  /\ ScrollMoved(view[1])
  /\ NextStart(view[1], AssignedScroll(view[1]).top, AssignedScroll(view[1]).left)
       # virtualizationState

\* C31: a scroll event re-renders only when the window start computed from
\* the scroll offsets differs from the stored VirtualizationState, and the
\* scroll event of the position assignment of a render causes no render.
C31_ScrollRendersOnChangeOnly ==
  /\ [][\A scrollTop \in ScrollTops, scrollLeft \in ScrollLefts :
          (Scroll(scrollTop, scrollLeft) /\ view' # view) =>
            NextStart(view[1], scrollTop, scrollLeft) # virtualizationState]_vars
  /\ [][ScrollAssigned => UNCHANGED <<view, virtualizationState>>]_vars

\* the queued scroll event of a render has been handled away from the origin
C31_AssignedScrollHandled ==
  /\ Rendered
  /\ ~scrollQueued
  /\ ScrollMoved(view[1])

\* What the comparison in handleScroll does guarantee: when the rows and
\* columns have not changed since the render before, the render caused by the
\* scroll event of an assignment queues no event that renders again.
ScrollChainSettles ==
  [][(ScrollAssigned /\ view[1].model = model /\ view'[1].model = view[1].model)
       => ~QueuedWouldRender']_vars

\* ----------------------------------------------------------------- C32
\* the positions of the rows of a tree: the child indices from the top down
TreePaths == UNION {[1..n -> 1..TreeWidth] : n \in 1..TreeDepth}

RECURSIVE NodeAt(_, _)
NodeAt(rows, p) == IF Len(p) = 1 THEN rows[p[1]] ELSE NodeAt(rows[p[1]].children, Tail(p))

RECURSIVE IsNode(_, _)
IsNode(rows, p) ==
  /\ p[1] <= Len(rows)
  /\ \/ Len(p) = 1
     \/ /\ "children" \in DOMAIN rows[p[1]]
        /\ IsNode(rows[p[1]].children, Tail(p))

\* every ancestor of the row at p has its id in the expansion set
AncestorsExpanded(rows, p, expanded) ==
  \A k \in 1..(Len(p) - 1) : ToString(NodeAt(rows, SubSeq(p, 1, k)).id) \in expanded

\* p comes before q in the depth-first pre-order
PreOrder(p, q) ==
  \/ Len(p) < Len(q) /\ SubSeq(q, 1, Len(p)) = p
  \/ \E k \in 1..Min(Len(p), Len(q)) :
       /\ SubSeq(p, 1, k - 1) = SubSeq(q, 1, k - 1)
       /\ p[k] < q[k]

\* C32: in hierarchy mode the rendered rows are the rows of the tree whose
\* ancestors are all in the expansion set, each once, with its nesting depth
\* and in depth-first pre-order; with hierarchy mode off they are the
\* top-level rows in order at depth 0.
C32_FlattenedRows ==
  (Rendered /\ view[1].model.status # "error") =>
    LET rows == view[1].model.rows
        tbody == Wrap(view[1]).table[1].tbody
        nodes == {p \in TreePaths : IsNode(rows, p)}
        shown == {p \in nodes : AncestorsExpanded(rows, p, view[1].treeExpandedIds)}
        PathOf(e) == CHOOSE p \in nodes : NodeAt(rows, p).id = e.id
    IN IF view[1].ui.tree
       THEN /\ Len(tbody) = Cardinality(shown)
            /\ \A p \in nodes :
                 p \in shown <=>
                   \E i \in DOMAIN tbody :
                     tbody[i].id = NodeAt(rows, p).id /\ tbody[i].depth = Len(p) - 1
            /\ \A i, j \in DOMAIN tbody :
                 i < j => PreOrder(PathOf(tbody[i]), PathOf(tbody[j]))
       ELSE /\ Len(tbody) = Len(rows)
            /\ \A i \in DOMAIN tbody : tbody[i].id = rows[i].id /\ tbody[i].depth = 0

\* hierarchy mode is on, row 2 is in the expansion set while its parent is
\* not, and row 5 is expanded
C32_ParentCollapsed ==
  /\ Rendered
  /\ view[1].ui.tree
  /\ view[1].model.rows = TreeRows
  /\ view[1].treeExpandedIds = {"2", "5"}

\* ----------------------------------------------------------------- C33
\* the rejection of a request that the provider has aborted is handled
AbortHandled == \E p \in 1..Len(providers), rid \in 1..(MaxTicks + 1) : FetchAborted(p, rid)

\* C33: handling the rejection of a request that the poll provider itself
\* aborted (a newer tick, stop()) changes neither status nor the error message.
C33_AbortedRequestSilent ==
  [][AbortHandled => (model'.status = model.status /\ model'.error = model.error)]_vars

\* the rejection of an aborted request has reached the catch of fetchOnce
C33_AbortReported == model.error = "Fetch failed: The operation was aborted."
\* ----------------------------------------------------------------- C34

\* The rows that clearing the filter term and visiting every page shows: the
\* input handler of the filter runs with an empty term, and the pages are the
\* slices of the source rows that the pagination plugin then holds.
Recoverable(s) ==
  LET f == OwnerOf(s.events["data"][1])
      g == OwnerOf(s.events["data"][3])
      Pages(t) == t.pag[g].sourceRows
  IN Pages(ApplyFilters([s EXCEPT !.flt[f].value = <<>>], f, <<>>))

\* C34: with the filter, sort and pagination plugins installed, an upsertRows
\* stream message loses no row: every row that clearing the term and paging
\* showed before the message, and every row of the message, is shown by
\* clearing the term and paging after it.
C34_UpsertKeepsDeliveredRows ==
  [][\A p \in 1..Len(providers), m \in stream :
       (SseMessage(p, m) /\ m.type = "upsertRows" /\ PipelineInstalled)
         => (Ids(Recoverable(Cur)) \cup Ids(m.rows[1])) \subseteq Ids(Recoverable(Cur'))]_vars

\* the upserted row 4 has reached the plugins while row 3 of the snapshot,
\* which was on the second page, is no longer among the filter's base rows
C34_UpsertedOntoPage ==
  /\ PipelineInstalled
  /\ 4 \in Ids(pag[OwnerOf(events["data"][3])].sourceRows)
  /\ 3 \notin Ids(flt[OwnerOf(events["data"][1])].baseRows)
\* ----------------------------------------------------------------- C35
\* the step leaves everything but the named members of the model as it was:
\* no render replaces the tree, no handler runs, no registry changes
ChangesOnly(members) ==
  /\ \A f \in DOMAIN Cur \ {"model"} : Cur'[f] = Cur[f]
  /\ \A f \in DOMAIN model \ members : model'[f] = model[f]

\* C35: setRows, upsertRows and setSnapshot change neither status nor error,
\* setStatus changes only status, setError changes only the error message,
\* and none of the five renders, emits or touches anything outside the model,
\* in whatever status they are called.
C35_MutatorsDisjoint ==
  [][/\ (\E status \in MutatorStatuses : SetStatusCall(status)) => ChangesOnly({"status"})
     /\ (\E message \in MutatorMessages : SetErrorCall(message)) => ChangesOnly({"error"})
     /\ (\E snapshot \in PluginSnapshots : SetSnapshotCall(snapshot))
          => ChangesOnly({"columns", "rows", "sort", "filters"})
     /\ (\E rows \in MutatorRows : SetRowsCall(rows) \/ UpsertRowsCall(rows))
          => ChangesOnly({"rows"})]_vars

\* rows were upserted while the status was "error" with a message, and the
\* tree still shows what the last render read
C35_UpsertedInErrorStatus ==
  /\ model.status = "error"
  /\ model.error = "boom"
  /\ model.rows = UpsertInto(Rows1, Rows2)
  /\ Rendered
  /\ view[1].model.rows # model.rows
\* ----------------------------------------------------------------- C36
\* C36: whenever status is "ready" or "loading" the error message is empty;
\* a load that succeeds after a failure clears the message of the failure.
C36_NoMessageUnlessError ==
  model.status \in {"ready", "loading"} => model.error = ""

\* a load has succeeded after a failure: status is back to "ready"
C36_ReadyAfterFailure ==
  /\ model.status = "ready"
  /\ model.error # ""
\* ----------------------------------------------------------------- C37
\* the cycles whose plugins hold a style fragment
StyleOwners == {pluginStyleSheets[i].owner.cyc : i \in DOMAIN pluginStyleSheets}

\* the newest cycle was begun by connectedCallback after a disconnect and has
\* completed
ReconnectCompleted ==
  /\ Len(cycles) > 1
  /\ ~cycles[Len(cycles)].force
  /\ cycles[Len(cycles)].pc = "done"

\* C37: after the element has been disconnected and connected again, and the
\* new initialization has completed, the toolbar and footer items, the
\* renderers, the event subscriptions and the plugin style fragments are
\* those registered by the new initialization only.
C37_ReconnectStartsClean ==
  ReconnectCompleted => (RegistryOwners \cup StyleOwners) \subseteq {Len(cycles)}

\* the initialization after a reconnect has completed, and the cycle before
\* the disconnect had initialized a plugin that registers items
C37_ReconnectAfterPlugins ==
  /\ ReconnectCompleted
  /\ isConnected
  /\ cycles[Len(cycles) - 1].loaded # <<>>
  /\ Len(footerItems) > 1
\* ----------------------------------------------------------------- C38
\* C38: a call of the unsubscribe function that on(event, handler) returned
\* removes one registration of the handler, the one it was returned for: a
\* handler subscribed twice is still subscribed once after the call, is
\* invoked by a following emit, and no other handler's registration changes.
C38_UnsubscribeRemovesOne ==
  [][\A handler \in OutsideHandlers :
       UnsubscribeCall(handler) =>
         /\ Count(events'["data"], handler) = Count(events["data"], handler) - 1
         /\ Count(events["data"], handler) > 1
              => \E i \in DOMAIN Invoked(events'["data"], 1) :
                   Invoked(events'["data"], 1)[i] = handler
         /\ \A h \in Range(events["data"]) \ {handler} :
              Count(events'["data"], h) = Count(events["data"], h)]_vars

\* the same handler function is subscribed twice to "data"
C38_SubscribedTwice ==
  \E handler \in OutsideHandlers : Count(events["data"], handler) = 2
\* ----------------------------------------------------------------- C39
\* the instances of the typical plugins that the newest cycle has initialized
TypicalOfNewestCycle ==
  {o \in DOMAIN pag \cup DOMAIN flt \cup DOMAIN srt : o.cyc = Len(cycles)}

\* C39: whenever a typical plugin has been initialized in the grid's current
\* cycle, the plugin style fragments of the grid include the fragment
\* "natural-grid-plugin-base-styles", after a reinitialization as well.
C39_BaseStylesPresent ==
  TypicalOfNewestCycle # {}
    => \E i \in DOMAIN pluginStyleSheets : pluginStyleSheets[i].id = PluginBaseStyleId

\* a reinitialization has initialized a typical plugin
C39_TypicalAfterReinit ==
  /\ TypicalOfNewestCycle # {}
  /\ cycles[Len(cycles)].force
\* ----------------------------------------------------------------- C40
LastPage(pg) == Max(1, CeilDiv(pg.totalRowsCount, pg.currentPageSize)) - 1

\* an event that the pagination plugin handles
PagingEvent ==
  \/ \E o \in DOMAIN pag : NextClick(o) \/ PrevClick(o)
  \/ PageSizeStep
  \/ \E o \in DOMAIN flt, term \in Terms : FilterInput(o, term)
  \/ \E o \in DOMAIN srt, multi \in BOOLEAN : HeaderClick(o, "a", multi)
  \/ \E p \in 1..Len(providers), m \in stream : SseMessage(p, m)

\* the page index is within the pages, and the listeners of Prev and Next
\* leave the first and the last page as they are
PageInRange ==
  \A o \in DOMAIN pag :
    /\ 0 <= pag[o].currentPage
    /\ pag[o].currentPage <= LastPage(pag[o])
    /\ pag[o].currentPage = 0 => OnPrevClick(Cur, o) = Cur
    /\ pag[o].currentPage = LastPage(pag[o]) => OnNextClick(Cur, o) = Cur

\* GridModel.rows is the current page of the source rows
RowsArePage(m, pg) ==
  /\ m.rows = Slice(pg.sourceRows, pg.currentPage * pg.currentPageSize,
                    (pg.currentPage + 1) * pg.currentPageSize)
  /\ Len(m.rows) <= pg.currentPageSize

\* C40: the page index of the pagination plugin stays within
\* 0 .. max(1, ceil(totalRows / pageSize)) - 1; Prev on the first page and
\* Next on the last page change nothing; and after Prev, Next, a page size
\* change and a data, filtered or sorted event GridModel.rows is, outside
\* manual mode, the current page of the source rows.
C40_PageIndexAndSlice ==
  /\ []PageInRange
  /\ [][PagingEvent =>
          \A o \in DOMAIN pag' : ~pag'[o].manualMode => RowsArePage(model', pag'[o])]_vars

\* the second page is shown at a page size picked from the select
C40_SecondPageAtPickedSize ==
  \E o \in DOMAIN pag :
    /\ ~pag[o].manualMode
    /\ pag[o].currentPageSize = 1
    /\ pag[o].currentPage = 1
    /\ Len(model.rows) = 1
====
